---------------------------- MODULE Spec2Model ----------------------------
(***************************************************************************)
(* Model of the insider-threat simulation (mini_mesa_LSC.py) and of the    *)
(* metrics evaluator that scores its event log                             *)
(* (sweep_thresholds_ablation_LSC.py).                                     *)
(*                                                                         *)
(* Conventions.                                                            *)
(*  - Severities are Python floats that are sums and differences of 0.85,  *)
(*    0.03, 0.015 and 0.3; they are kept as integers in units of 1e-5, so  *)
(*    that round(x, 4) is a real computation (Round4).                     *)
(*  - An optional value (None or a value) is the empty set or a singleton. *)
(*  - A run's random stream is consumed one call at a time (rng_calls);    *)
(*    the outcome of the k-th comparison `rng.random() < p` of a step is   *)
(*    `k \in fires`, with fires chosen per step.  All runs of one seed     *)
(*    read the same stream, so the runs of the sweep over the thresholds   *)
(*    are stepped together on the same fires.  The stream the seed has     *)
(*    produced so far is kept (stream), one set of outcomes per step.      *)
(***************************************************************************)
EXTENDS Integers, Sequences, FiniteSets, TLC

VARIABLES
    model,      \* threshold -> the InsiderModel of the run with that threshold
    pc,         \* "running" | "returned" | "evaluated": the sweep's position for this seed
    rows,       \* threshold -> metrics of the finished run (<<>> until evaluated)
    twin,       \* a TrafficTwin driven on its own over runs of any length
    stream,     \* the seed's random stream so far: the outcomes of each step's comparisons
    sweep,      \* a call of run_sweep: its arguments, position, rows, summary and output
    cps_call    \* a call of compute_cps_metrics on its own: its log and its result

vars == <<model, pc, rows, twin, stream, sweep, cps_call>>

---------------------------------------------------------------------------
(* Bounds of the model *)

\* warmup_steps + test_steps of a run is at most MaxSteps
MaxSteps == 2

\* how many of the 14 comparisons of one step may succeed
FireCounts == {0, 1, 14}

\* the sweep runs the thresholds 1..MaxThreshold
MaxThreshold == 6

\* compute_cps_metrics on its own reads logs of at most MaxStates state events
MaxStates == 4

\* run_sweep is called with --seeds from -1 to MaxSeeds
MaxSeeds == 2

---------------------------------------------------------------------------
(* Program constants *)

One == 100000
DecayPerStep == 1500
DegradeThreshold == 25000
PushDefaultInc == 90000
TweakDefaultInc == 3000
RollbackDrop == 30000
PushSeverityInc == 85000
TweakSeverityInc == 3000
BenignFirst == 5
BenignLast == 11
ImpactDefault == 50000

None == {}

\* no call of run_sweep, no call of compute_cps_metrics
NoSweep == [pc |-> "idle"]
NoCps == [log |-> <<>>, result |-> {}]
Some(x) == {x}
TheValue(opt) == CHOOSE x \in opt : TRUE

\* the thresholds swept for the seed
Thresholds == 1..MaxThreshold

scenarios == <<"acct_takeover", "stealth", "staging_exfil", "exfil", "email_only">>

SCENARIO_IMPACT ==
    [s \in {"acct_takeover", "stealth", "staging_exfil", "exfil", "email_only"} |->
        CASE s = "acct_takeover" -> 100000
          [] s = "stealth" -> 60000
          [] s = "staging_exfil" -> 75000
          [] s = "exfil" -> 80000
          [] s = "email_only" -> 50000]

\* sequencing: v is computed once and its value handed to F
Then(v, F(_)) == CHOOSE r \in {F(x) : x \in {v}} : TRUE

Max(a, b) == IF a >= b THEN a ELSE b
Min(a, b) == IF a <= b THEN a ELSE b

\* round(x, 4) of a severity held in units of 1e-5
Round4(x) == ((x + 5) \div 10) * 10

---------------------------------------------------------------------------
(* Event *)

NoMeta == [k \in {} |-> 0]

Event(step, event_type, actor_id, resource, action, label, scenario, meta) ==
    [step |-> step, event_type |-> event_type, actor_id |-> actor_id,
     resource |-> resource, action |-> action, label |-> label,
     scenario |-> scenario, phase |-> None, meta |-> meta]

\* event.meta.get(key, default)
MetaGet(meta, key, default) == IF key \in DOMAIN meta THEN meta[key] ELSE default

\* event.meta.get("cmd") == c
CmdIs(event, c) == "cmd" \in DOMAIN event.meta /\ event.meta["cmd"] = c

---------------------------------------------------------------------------
(* InsiderModel: phase tagging and emission *)

\* a slip: the warmup boundary taken inclusively
TagPhaseInclusive(m, event) ==
    [event EXCEPT !.phase = IF m.step_idx <= m.warmup_steps THEN "train" ELSE "test"]

TagPhase(m, event) ==
    [event EXCEPT !.phase = IF m.step_idx < m.warmup_steps THEN "train" ELSE "test"]

\* a slip: the phase of the whole log set again at every emission
EmitActionRetag(m, event) ==
    LET tagged == TagPhase(m, event)
    IN  [m EXCEPT !.action_events = Append(@, tagged),
                  !.events = Append([i \in DOMAIN @ |-> TagPhase(m, @[i])], tagged)]

\* a slip: the newest event put at the head of the log
EmitActionPrepend(m, event) ==
    LET tagged == TagPhase(m, event)
    IN  [m EXCEPT !.action_events = Append(@, tagged),
                  !.events = <<tagged>> \o @]

EmitAction(m, event) ==
    LET tagged == TagPhase(m, event)
    IN  [m EXCEPT !.action_events = Append(@, tagged),
                  !.events = Append(@, tagged)]

\* one call of rng.random() compared with a probability: the call's index in
\* the step decides the outcome; base is rng_calls at the start of the step
RandomBelow(m, base, fires) == (m.rng_calls - base + 1) \in fires

Consume(m) == [m EXCEPT !.rng_calls = @ + 1]


\* if rng.random() < p: model.emit_action(event)
Bernoulli(m, base, fires, event) ==
    IF RandomBelow(m, base, fires) THEN EmitAction(Consume(m), event) ELSE Consume(m)

---------------------------------------------------------------------------
(* TrafficTwin *)

NewTwin ==
    [service |-> "traffic", degrade_threshold |-> DegradeThreshold,
     severity |-> 0, degraded |-> FALSE, cause_actor_id |-> None,
     writes |-> <<>>]      \* writes: every value assigned to severity in the last step

SetSeverity(tw, v) == [tw EXCEPT !.severity = v, !.writes = Append(@, v)]

\* a slip: the cause kept once it is set
SetCauseOnce(tw, event) ==
    IF event.actor_id >= 0 /\ tw.cause_actor_id = None
    THEN [tw EXCEPT !.cause_actor_id = Some(event.actor_id)] ELSE tw

\* if event.actor_id >= 0: self.cause_actor_id = event.actor_id
SetCause(tw, event) ==
    IF event.actor_id >= 0 THEN [tw EXCEPT !.cause_actor_id = Some(event.actor_id)] ELSE tw

Decay(tw) == SetSeverity(tw, Max(0, tw.severity - DecayPerStep))

PushTimingPlan(tw, event) ==
    SetCause(SetSeverity(tw, Max(tw.severity, MetaGet(event.meta, "severity_inc", PushDefaultInc))),
             event)

\* a slip: the upper clamp forgotten
TweakOffsetUnclamped(tw, event) ==
    SetCause(SetSeverity(tw, tw.severity + MetaGet(event.meta, "severity_inc", TweakDefaultInc)),
             event)

TweakOffset(tw, event) ==
    SetCause(SetSeverity(tw, Min(One, tw.severity + MetaGet(event.meta, "severity_inc", TweakDefaultInc))),
             event)

RollbackPlan(tw) ==
    LET t == SetSeverity(tw, Max(0, tw.severity - RollbackDrop))
    IN  IF t.severity < t.degrade_threshold THEN [t EXCEPT !.cause_actor_id = None] ELSE t

TwinCommand(tw, event) ==
    IF event.event_type # "cps_command" THEN tw
    ELSE IF CmdIs(event, "PUSH_TIMING_PLAN") THEN PushTimingPlan(tw, event)
    ELSE IF CmdIs(event, "TWEAK_OFFSET") THEN TweakOffset(tw, event)
    ELSE IF CmdIs(event, "ROLLBACK_PLAN") THEN RollbackPlan(tw)
    ELSE tw

RECURSIVE TwinScan(_, _, _)
TwinScan(tw, action_events, i) ==
    IF i > Len(action_events) THEN tw
    ELSE Then(TwinCommand(tw, action_events[i]),
              LAMBDA t : TwinScan(t, action_events, i + 1))

\* a slip: degraded decided after the decay, before the step's commands
TwinUpdateDegradedFirst(tw, action_events) ==
    Then(Decay([tw EXCEPT !.writes = <<>>]),
         LAMBDA d : [TwinScan(d, action_events, 1)
                        EXCEPT !.degraded = (d.severity >= d.degrade_threshold)])

\* TrafficTwin.step up to the emission: decay, the step's commands, degraded
TwinUpdate(tw, action_events) ==
    Then(TwinScan(Decay([tw EXCEPT !.writes = <<>>]), action_events, 1),
         LAMBDA t : [t EXCEPT !.degraded = (t.severity >= t.degrade_threshold)])

StateMeta(tw) ==
    [service |-> tw.service, degraded |-> tw.degraded,
     severity |-> Round4(tw.severity), cause_actor_id |-> tw.cause_actor_id]

StateEvent(tw, step) ==
    Event(step, "cps_service_state", -1, "traffic_corridor_A", "service_state",
          "benign", None, StateMeta(tw))

\* a slip: the state reported only in the steps in which somebody acted
TrafficTwinStepWhenActive(m) ==
    Then(TwinUpdate(m.traffic_twin, m.action_events),
         LAMBDA tw : IF m.action_events = <<>> THEN [m EXCEPT !.traffic_twin = tw]
                     ELSE EmitAction([m EXCEPT !.traffic_twin = tw], StateEvent(tw, m.step_idx)))

TrafficTwinStep(m) ==
    Then(TwinUpdate(m.traffic_twin, m.action_events),
         LAMBDA tw : EmitAction([m EXCEPT !.traffic_twin = tw], StateEvent(tw, m.step_idx)))

---------------------------------------------------------------------------
(* MaliciousInsider *)

\* a slip: the ids counted from 1
AttackerOffByOne(i) == [unique_id |-> i, scenario |-> scenarios[i]]

\* enumerate(scenarios): the i-th attacker, with id i - 1
Attacker(i) == [unique_id |-> i - 1, scenario |-> scenarios[i]]

MalEvent(m, a, event_type, resource, action, meta) ==
    Event(m.step_idx, event_type, a.unique_id, resource, action, "malicious",
          Some(a.scenario), meta)

PushMeta ==
    [service |-> "traffic", cmd |-> "PUSH_TIMING_PLAN",
     severity_inc |-> PushSeverityInc, unsafe |-> TRUE]

TweakMeta ==
    [service |-> "traffic", cmd |-> "TWEAK_OFFSET", severity_inc |-> TweakSeverityInc]

Act(m, a, base, fires) ==
    CASE a.scenario = "acct_takeover" ->
            Then(Bernoulli(m, base, fires,
                        MalEvent(m, a, "auth", "admin_console", "after_hours_login", NoMeta)),
                 LAMBDA m1 : Bernoulli(m1, base, fires,
                        MalEvent(m, a, "cps_command", "traffic_corridor_A", "PUSH_TIMING_PLAN", PushMeta)))
      [] a.scenario = "stealth" ->
            Then(Bernoulli(m, base, fires,
                        MalEvent(m, a, "db_query", "citizen_db", "suspicious_query", NoMeta)),
                 LAMBDA m1 : Bernoulli(m1, base, fires,
                        MalEvent(m, a, "cps_command", "traffic_corridor_A", "TWEAK_OFFSET", TweakMeta)))
      [] a.scenario = "staging_exfil" ->
            Bernoulli(m, base, fires, MalEvent(m, a, "file_access", "share", "zip_batch", NoMeta))
      [] a.scenario = "exfil" ->
            Bernoulli(m, base, fires, MalEvent(m, a, "network", "egress", "bulk_upload", NoMeta))
      [] a.scenario = "email_only" ->
            Bernoulli(m, base, fires, MalEvent(m, a, "email", "mail", "phish_send", NoMeta))
      [] OTHER -> m

RECURSIVE Attackers(_, _, _, _)
Attackers(m, i, base, fires) ==
    IF i > Len(scenarios) THEN m
    ELSE Then(Act(m, Attacker(i), base, fires),
              LAMBDA n : Attackers(n, i + 1, base, fires))

---------------------------------------------------------------------------
(* InsiderModel *)

NewModel(warmup_steps, test_steps, threshold) ==
    [threshold |-> threshold, warmup_steps |-> warmup_steps, test_steps |-> test_steps,
     total_steps |-> warmup_steps + test_steps, step_idx |-> 0,
     events |-> <<>>, action_events |-> <<>>, rng_calls |-> 0,
     traffic_twin |-> NewTwin]

RECURSIVE EmitBenignBackground(_, _, _, _)
EmitBenignBackground(m, actor_id, base, fires) ==
    IF actor_id > BenignLast THEN m
    ELSE Then(Bernoulli(m, base, fires,
                        Event(m.step_idx, "auth", actor_id, "vpn", "login", "benign", None, NoMeta)),
              LAMBDA n : EmitBenignBackground(n, actor_id + 1, base, fires))

IsSuspicious(e) == e.label = "malicious" /\ e.actor_id >= 0

\* the events _run_monitors scans
MonitoredEvents(m) == m.action_events

CountSuspicious(evs) == Cardinality({i \in DOMAIN evs : IsSuspicious(evs[i])})

\* a slip: every actor of the step suspected, the benign ones included
SuspectsOfAnyone(evs) == {evs[i].actor_id : i \in {j \in DOMAIN evs : evs[j].actor_id >= 0}}

SuspectsOf(evs) == {evs[i].actor_id : i \in {j \in DOMAIN evs : IsSuspicious(evs[j])}}

SetMin(S) == CHOOSE x \in S : \A y \in S : x <= y

\* sorted(S)
RECURSIVE Sorted(_)
Sorted(S) == IF S = {} THEN <<>> ELSE <<SetMin(S)>> \o Sorted(S \ {SetMin(S)})

\* a slip: the alert given the scenario of the actor it confirms
RECURSIVE EmitAlertsWithScenario(_, _, _)
EmitAlertsWithScenario(m, suspects, i) ==
    IF i > Len(suspects) THEN m
    ELSE Then(EmitAction(m, Event(m.step_idx, "alert_confirmed", suspects[i], "siem", "confirm",
                                  "benign", Some(scenarios[suspects[i] + 1]), NoMeta)),
              LAMBDA n : EmitAlertsWithScenario(n, suspects, i + 1))

\* for a in suspects: emit alert_confirmed
RECURSIVE EmitAlerts(_, _, _)
EmitAlerts(m, suspects, i) ==
    IF i > Len(suspects) THEN m
    ELSE Then(EmitAction(m, Event(m.step_idx, "alert_confirmed", suspects[i], "siem", "confirm",
                                  "benign", None, NoMeta)),
              LAMBDA n : EmitAlerts(n, suspects, i + 1))

\* a slip: the monitor drawing from the run's generator when it alerts
RunMonitorsDrawing(m) ==
    IF CountSuspicious(MonitoredEvents(m)) >= m.threshold
    THEN Then(Sorted(SuspectsOf(MonitoredEvents(m))),
              LAMBDA suspects : EmitAlerts(Consume(m), suspects, 1))
    ELSE m

RunMonitors(m) ==
    IF CountSuspicious(MonitoredEvents(m)) >= m.threshold
    THEN Then(Sorted(SuspectsOf(MonitoredEvents(m))), LAMBDA suspects : EmitAlerts(m, suspects, 1))
    ELSE m

AnyAlert(evs) == \E i \in DOMAIN evs : evs[i].event_type = "alert_confirmed"

RollbackEvent(step) ==
    Event(step, "cps_command", -1, "traffic_corridor_A", "ROLLBACK_PLAN", "benign", None,
          [service |-> "traffic", cmd |-> "ROLLBACK_PLAN"])

\* a slip: the rollback tied to the twin's degradation instead of the alerts
EmitRollbackWhenDegraded(m) ==
    IF m.traffic_twin.degraded THEN EmitAction(m, RollbackEvent(m.step_idx)) ELSE m

\* if any(e.event_type == "alert_confirmed" ...): emit the synthetic rollback
EmitRollback(m) ==
    IF AnyAlert(m.action_events) THEN EmitAction(m, RollbackEvent(m.step_idx)) ELSE m

\* a slip: the system's own commands of the last step left in the buffer
ClearBufferKeepingCommands(m) ==
    [m EXCEPT !.action_events =
        SelectSeq(@, LAMBDA e : e.event_type = "cps_command" /\ e.actor_id < 0)]

\* self.action_events = []
ClearBuffer(m) == [m EXCEPT !.action_events = <<>>]

Advance(m) == [m EXCEPT !.step_idx = @ + 1]

\* a slip: the monitors run before the twin
ModelStepMonitorsFirst(m, fires) ==
    Then(EmitBenignBackground(ClearBuffer(m), BenignFirst, m.rng_calls, fires), LAMBDA m1 :
    Then(Attackers(m1, 1, m.rng_calls, fires), LAMBDA m2 :
    Then(RunMonitors(m2), LAMBDA m3 :
    Then(TrafficTwinStep(m3), LAMBDA m4 :
    Then(EmitRollback(m4), LAMBDA m5 : Advance(m5))))))

\* InsiderModel.step, on the outcomes `fires` of the step's comparisons
ModelStep(m, fires) ==
    Then(EmitBenignBackground(ClearBuffer(m), BenignFirst, m.rng_calls, fires), LAMBDA m1 :
    Then(Attackers(m1, 1, m.rng_calls, fires), LAMBDA m2 :
    Then(TrafficTwinStep(m2), LAMBDA m3 :
    Then(RunMonitors(m3), LAMBDA m4 :
    Then(EmitRollback(m4), LAMBDA m5 : Advance(m5))))))

\* a slip: one step too many
LoopContinuesInclusive(m) == m.step_idx <= m.total_steps

\* for _ in range(model.total_steps)
LoopContinues(m) == m.step_idx < m.total_steps

\* the loop of run_simulation on the draws of a seed, one set per step
RECURSIVE RunSteps(_, _)
RunSteps(m, draws) ==
    IF ~LoopContinues(m) THEN m
    ELSE Then(ModelStep(m, draws[m.step_idx + 1]), LAMBDA n : RunSteps(n, draws))

\* run_simulation(seed, warmup_steps, test_steps, threshold), the seed given
\* by the stream its generator produces
run_simulation(draws, warmup_steps, test_steps, threshold) ==
    RunSteps(NewModel(warmup_steps, test_steps, threshold), draws).events

---------------------------------------------------------------------------
(* Metrics evaluator (sweep_thresholds_ablation_LSC.py) *)

\* A Python float that is a quotient of two integers is the pair num/den.
Frac(n, d) == [num |-> n, den |-> d]
FAdd(a, b) == Frac(a.num * b.den + b.num * a.den, a.den * b.den)
FMul(a, b) == Frac(a.num * b.num, a.den * b.den)
\* a slip: the quotient taken the wrong way round
FDivInverted(a, b) == Frac(a.den * b.num, a.num * b.den)

FDiv(a, b) == Frac(a.num * b.den, a.den * b.num)

\* a slip: the guard of the division forgotten
RatioUnguarded(n, d) == Frac(n, d)

\* n / d if d else 0.0
Ratio(n, d) == IF d # 0 THEN Frac(n, d) ELSE Frac(0, 1)

CPS_STATE_TYPE == "cps_service_state"

\* a slip: the train phase not filtered out
filter_to_all(events) == events

filter_to_test(events) == SelectSeq(events, LAMBDA e : e.phase = "test")

RECURSIVE SumSeq(_, _)
SumSeq(s, i) == IF i > Len(s) THEN 0 ELSE s[i] + SumSeq(s, i + 1)

RECURSIVE SumOver(_, _)
SumOver(S, f) ==
    IF S = {} THEN 0
    ELSE LET x == CHOOSE y \in S : TRUE IN f[x] + SumOver(S \ {x}, f)

\* list.sort(key=step): a stable insertion sort
RECURSIVE InsertByStep(_, _)
InsertByStep(sorted, e) ==
    IF sorted = <<>> THEN <<e>>
    ELSE IF sorted[Len(sorted)].step <= e.step THEN Append(sorted, e)
    ELSE Append(InsertByStep(SubSeq(sorted, 1, Len(sorted) - 1), e), sorted[Len(sorted)])

RECURSIVE SortByStep(_, _)
SortByStep(evs, i) ==
    IF i = 0 THEN <<>> ELSE InsertByStep(SortByStep(evs, i - 1), evs[i])

IsServiceState(e, service) ==
    /\ e.event_type = CPS_STATE_TYPE
    /\ "service" \in DOMAIN e.meta
    /\ e.meta["service"] = service

\* a slip: run_len not set back to 0 when a run is closed
RECURSIVE DegradedRunsNoReset(_, _)
DegradedRunsNoReset(flags, i) ==
    IF i = 0 THEN [run_len |-> 0, durations |-> <<>>]
    ELSE LET st == DegradedRunsNoReset(flags, i - 1)
         IN  IF flags[i] THEN [st EXCEPT !.run_len = @ + 1]
             ELSE IF st.run_len > 0
                  THEN [st EXCEPT !.durations = Append(st.durations, st.run_len)]
                  ELSE st

\* the loop over degraded_flags: <<run_len, durations>> after flags[1..i]
RECURSIVE DegradedRuns(_, _)
DegradedRuns(flags, i) ==
    IF i = 0 THEN [run_len |-> 0, durations |-> <<>>]
    ELSE LET st == DegradedRuns(flags, i - 1)
         IN  IF flags[i] THEN [st EXCEPT !.run_len = @ + 1]
             ELSE IF st.run_len > 0
                  THEN [run_len |-> 0, durations |-> Append(st.durations, st.run_len)]
                  ELSE st

\* a slip: the last severity attributed to an actor kept, not the largest
RECURSIVE SeverityByActorLast(_, _)
SeverityByActorLast(cps_states, i) ==
    IF i = 0 THEN [a \in {} |-> 0]
    ELSE LET d == SeverityByActorLast(cps_states, i - 1)
             meta == cps_states[i].meta
             cause == MetaGet(meta, "cause_actor_id", None)
             sev == MetaGet(meta, "severity", 0)
         IN  IF cause = None THEN d
             ELSE IF TheValue(cause) < 0 THEN d
             ELSE LET c == TheValue(cause)
                  IN  [a \in DOMAIN d \cup {c} |-> IF a = c THEN sev ELSE d[a]]

\* the loop that fills severity_by_actor from cps_states[1..i]
RECURSIVE SeverityByActor(_, _)
SeverityByActor(cps_states, i) ==
    IF i = 0 THEN [a \in {} |-> 0]
    ELSE LET d == SeverityByActor(cps_states, i - 1)
             meta == cps_states[i].meta
             cause == MetaGet(meta, "cause_actor_id", None)
             sev == MetaGet(meta, "severity", 0)
         IN  IF cause = None THEN d
             ELSE IF TheValue(cause) < 0 THEN d
             ELSE LET c == TheValue(cause)
                  IN  [a \in DOMAIN d \cup {c} |->
                          IF a = c THEN Max(IF c \in DOMAIN d THEN d[c] ELSE 0, sev)
                          ELSE d[a]]

compute_cps_metrics(events, service) ==
    LET states == SelectSeq(events, LAMBDA e : IsServiceState(e, service))
        cps_states == SortByStep(states, Len(states))
        degraded_flags == [i \in DOMAIN cps_states |-> MetaGet(cps_states[i].meta, "degraded", FALSE)]
        sdp == IF \E i \in DOMAIN degraded_flags : degraded_flags[i] THEN Frac(1, 1) ELSE Frac(0, 1)
        scan == DegradedRuns(degraded_flags, Len(degraded_flags))
        durations == IF scan.run_len > 0 THEN Append(scan.durations, scan.run_len)
                     ELSE scan.durations
        avg_dur == Ratio(SumSeq(durations, 1), Len(durations))
    IN  [sdp |-> sdp, avg_dur |-> avg_dur,
         severity_by_actor |-> SeverityByActor(cps_states, Len(cps_states))]

\* the loop that fills scenario_by_actor: the last scenario seen wins
RECURSIVE ScenarioByActor(_, _)
ScenarioByActor(events, i) ==
    IF i = 0 THEN [a \in {} |-> ""]
    ELSE LET d == ScenarioByActor(events, i - 1)
             e == events[i]
         IN  IF e.actor_id >= 0 /\ e.scenario # None
             THEN [a \in DOMAIN d \cup {e.actor_id} |->
                      IF a = e.actor_id THEN TheValue(e.scenario) ELSE d[a]]
             ELSE d

IsMalicious(e) == e.label = "malicious"
IsAlert(e) == e.event_type = "alert_confirmed"

\* the tests the evaluator's loops and comprehensions apply to an event
EventMatches(e, kind) ==
    CASE kind = "malicious" -> IsMalicious(e)
      [] kind = "alert_confirmed" -> IsAlert(e)
      [] OTHER -> TRUE

\* a slip: first_*_step[aid] = step, so that the last matching event wins
RECURSIVE LastStep(_, _, _)
LastStep(events, i, kind) ==
    IF i = 0 THEN [a \in {} |-> 0]
    ELSE LET d == LastStep(events, i - 1, kind)
             e == events[i]
         IN  IF e.actor_id >= 0 /\ EventMatches(e, kind)
             THEN [a \in DOMAIN d \cup {e.actor_id} |->
                      IF a = e.actor_id THEN e.step ELSE d[a]]
             ELSE d

\* first_*_step.setdefault(aid, step) over events[1..i], for the events that match
RECURSIVE FirstStep(_, _, _)
FirstStep(events, i, kind) ==
    IF i = 0 THEN [a \in {} |-> 0]
    ELSE LET d == FirstStep(events, i - 1, kind)
             e == events[i]
         IN  IF e.actor_id >= 0 /\ EventMatches(e, kind) /\ e.actor_id \notin DOMAIN d
             THEN [a \in DOMAIN d \cup {e.actor_id} |->
                      IF a = e.actor_id THEN e.step ELSE d[a]]
             ELSE d

\* {int(e["actor_id"]) for e in events if <test> and int(e["actor_id"]) >= 0}
ActorsWith(events, kind) ==
    {events[i].actor_id :
        i \in {j \in DOMAIN events : EventMatches(events[j], kind) /\ events[j].actor_id >= 0}}

\* a slip: the step of the first test event taken for the last step
MaxStepFirst(events) == IF events = <<>> THEN 0 ELSE events[1].step

\* max([int(e.get("step", 0)) for e in events], default=0)
MaxStep(events) ==
    IF events = <<>> THEN 0
    ELSE LET S == {events[i].step : i \in DOMAIN events}
         IN  CHOOSE x \in S : \A y \in S : y <= x

\* a slip: a severity of 0.0 treated like a missing one (`get(a) or fallback`)
ImpactWeightOrFallback(a, severity_by_actor, scenario_by_actor) ==
    IF a \in DOMAIN severity_by_actor /\ severity_by_actor[a] # 0 THEN severity_by_actor[a]
    ELSE LET sc == IF a \in DOMAIN scenario_by_actor THEN scenario_by_actor[a] ELSE ""
         IN  IF sc \in DOMAIN SCENARIO_IMPACT THEN SCENARIO_IMPACT[sc] ELSE ImpactDefault

\* w_i of the impact-weighted TTD
ImpactWeight(a, severity_by_actor, scenario_by_actor) ==
    IF a \in DOMAIN severity_by_actor THEN severity_by_actor[a]
    ELSE LET sc == IF a \in DOMAIN scenario_by_actor THEN scenario_by_actor[a] ELSE ""
         IN  IF sc \in DOMAIN SCENARIO_IMPACT THEN SCENARIO_IMPACT[sc] ELSE ImpactDefault

\* a slip: an unconfirmed actor counted as detected at once
CensoredTtdUncensored(a, first_mal_step, first_conf_step, last_test_step) ==
    IF a \in DOMAIN first_conf_step THEN first_conf_step[a] - first_mal_step[a]
    ELSE 0

\* ttd_i of the impact-weighted TTD: censored at the last test step when unconfirmed
CensoredTtd(a, first_mal_step, first_conf_step, last_test_step) ==
    IF a \in DOMAIN first_conf_step THEN first_conf_step[a] - first_mal_step[a]
    ELSE last_test_step - first_mal_step[a]

eval_from_events(all_events) ==
    LET events == filter_to_test(all_events)
        actors == ActorsWith(events, "any")
        scenario_by_actor == ScenarioByActor(events, Len(events))
        malicious == ActorsWith(events, "malicious")
        confirmed == ActorsWith(events, "alert_confirmed")
        tp == Cardinality(malicious \cap confirmed)
        fp == Cardinality(confirmed \ malicious)
        fn == Cardinality(malicious \ confirmed)
        prec == Ratio(tp, tp + fp)
        rec == Ratio(tp, tp + fn)
        actor_f1 == IF FAdd(prec, rec).num # 0
                    THEN FDiv(FMul(Frac(2, 1), FMul(prec, rec)), FAdd(prec, rec))
                    ELSE Frac(0, 1)
        first_mal_step == FirstStep(events, Len(events), "malicious")
        first_conf_step == FirstStep(events, Len(events), "alert_confirmed")
        timed == {a \in malicious : a \in DOMAIN first_conf_step /\ a \in DOMAIN first_mal_step}
        ttd == [a \in timed |-> first_conf_step[a] - first_mal_step[a]]
        mean_ttd == IF timed # {} THEN Some(Frac(SumOver(timed, ttd), Cardinality(timed)))
                    ELSE None
        last_test_step == MaxStep(events)
        cps == compute_cps_metrics(events, "traffic")
        weighed == {a \in malicious : a \in DOMAIN first_mal_step}
        w == [a \in weighed |-> ImpactWeight(a, cps.severity_by_actor, scenario_by_actor)]
        wt == [a \in weighed |->
                 w[a] * CensoredTtd(a, first_mal_step, first_conf_step, last_test_step)]
        iw_num == SumOver(weighed, wt)
        iw_den == SumOver(weighed, w)
        iw_ttd == IF iw_den > 0 THEN Some(Frac(iw_num, iw_den)) ELSE None
    IN  [num_actors |-> Cardinality(actors),
         num_mal_actors |-> Cardinality(malicious),
         actor_precision |-> prec,
         actor_recall |-> rec,
         actor_f1 |-> actor_f1,
         mean_ttd |-> mean_ttd,
         iw_ttd |-> iw_ttd,
         sdp |-> cps.sdp,
         avg_degraded_mode_duration |-> cps.avg_dur]

---------------------------------------------------------------------------
(* The sweep over the thresholds for one seed *)

\* rng.random() calls of one step: one per benign actor, two for each of the
\* two-rule scenarios and one for each of the others
DrawsPerStep == (BenignLast - BenignFirst + 1) + 2 + 2 + 1 + 1 + 1

DrawOutcomes == {F \in SUBSET (1..DrawsPerStep) : Cardinality(F) \in FireCounts}

StepConfigs == {c \in (0..MaxSteps) \X (0..MaxSteps) : c[1] + c[2] <= MaxSteps}

NoRows == [t \in Thresholds |-> None]

Init ==
    /\ \E c \in StepConfigs : model = [t \in Thresholds |-> NewModel(c[1], c[2], t)]
    /\ pc = "running"
    /\ rows = NoRows
    /\ twin = NewTwin
    /\ stream = <<>>
    /\ sweep = NoSweep
    /\ cps_call = NoCps

\* a slip: the generator not seeded, so that a run draws for itself
StepUnseeded ==
    /\ pc = "running"
    /\ \A t \in Thresholds : LoopContinues(model[t])
    /\ \E fires \in DrawOutcomes : \E own \in DrawOutcomes :
          /\ model' = [t \in Thresholds |->
                          ModelStep(model[t], IF t = MaxThreshold THEN own ELSE fires)]
          /\ stream' = Append(stream, fires)
    /\ UNCHANGED <<pc, rows, twin, sweep, cps_call>>

\* one model.step() of every run of the seed
Step ==
    /\ pc = "running"
    /\ \A t \in Thresholds : LoopContinues(model[t])
    /\ \E fires \in DrawOutcomes :
          /\ model' = [t \in Thresholds |-> ModelStep(model[t], fires)]
          /\ stream' = Append(stream, fires)
    /\ UNCHANGED <<pc, rows, twin, sweep, cps_call>>

\* the loops end: run_simulation returns model.events
Return ==
    /\ pc = "running"
    /\ \A t \in Thresholds : ~LoopContinues(model[t])
    /\ pc' = "returned"
    /\ UNCHANGED <<model, rows, twin, stream, sweep, cps_call>>

\* metrics = eval_from_events(events), one row per threshold
Evaluate ==
    /\ pc = "returned"
    /\ pc' = "evaluated"
    /\ rows' = [t \in Thresholds |-> Some(eval_from_events(model[t].events))]
    /\ UNCHANGED <<model, twin, stream, sweep, cps_call>>

Next == Step \/ Return \/ Evaluate

Spec == Init /\ [][Next]_vars

\* the run loop is single-threaded and nothing in it blocks: a step that can
\* be taken is taken, and a loop that has ended returns
LiveSpec == Spec /\ WF_vars(Step) /\ WF_vars(Return)

---------------------------------------------------------------------------
(* The twin on its own: TrafficTwin.step applied, step after step and for   *)
(* as long as one likes, to the buffers a step of the model hands it        *)

\* model.action_events when the twin runs: the step's logins and attacker events
StepBuffer(fires) ==
    Attackers(EmitBenignBackground(NewModel(0, 1, 1), BenignFirst, 0, fires),
              1, 0, fires).action_events

TwinInit ==
    /\ model = [t \in Thresholds |-> NewModel(0, 0, t)]
    /\ pc = "twin"
    /\ rows = NoRows
    /\ twin = NewTwin
    /\ stream = <<>>
    /\ sweep = NoSweep
    /\ cps_call = NoCps

TwinNext ==
    /\ \E fires \in DrawOutcomes : twin' = TwinUpdate(twin, StepBuffer(fires))
    /\ UNCHANGED <<model, pc, rows, stream, sweep, cps_call>>

TwinSpec == TwinInit /\ [][TwinNext]_vars

---------------------------------------------------------------------------
(* Longer runs of the sweep: one step more than MaxSteps, in which only the  *)
(* rules of the stealth actor, the rule of the staging actor and the push of *)
(* the takeover actor may fire                                               *)

LongSteps == MaxSteps + 1

\* the index, among the comparisons of a step, of the first attacker's first rule
FirstAttackerDraw == (BenignLast - BenignFirst + 1) + 1

\* suspicious_query and TWEAK_OFFSET of the stealth actor in any combination,
\* or zip_batch of the staging actor alone, or PUSH_TIMING_PLAN of the
\* takeover actor alone
QuietOutcomes ==
    (SUBSET {FirstAttackerDraw + 2, FirstAttackerDraw + 3})
        \cup {{FirstAttackerDraw + 4}, {FirstAttackerDraw + 1}}

LongConfigs == {c \in (0..LongSteps) \X (0..LongSteps) : c[1] + c[2] <= LongSteps}

LongInit ==
    /\ \E c \in LongConfigs : model = [t \in Thresholds |-> NewModel(c[1], c[2], t)]
    /\ pc = "running"
    /\ rows = NoRows
    /\ twin = NewTwin
    /\ stream = <<>>
    /\ sweep = NoSweep
    /\ cps_call = NoCps

\* one model.step() of every run of the seed, on a quiet step
QuietStep ==
    /\ pc = "running"
    /\ \A t \in Thresholds : LoopContinues(model[t])
    /\ \E fires \in QuietOutcomes :
          /\ model' = [t \in Thresholds |-> ModelStep(model[t], fires)]
          /\ stream' = Append(stream, fires)
    /\ UNCHANGED <<pc, rows, twin, sweep, cps_call>>

LongNext == QuietStep \/ Return \/ Evaluate

LongSpec == LongInit /\ [][LongNext]_vars

---------------------------------------------------------------------------
(* compute_cps_metrics on its own: it is handed a log of state events, in    *)
(* any order of their steps, of the traffic service and of another service   *)

\* the state event of step `step` of a twin of `service`, degraded or not
ObservedState(service, degraded, step) ==
    [StateEvent([NewTwin EXCEPT !.service = service, !.degraded = degraded,
                                !.severity = IF degraded THEN DegradeThreshold ELSE 0],
                step)
        EXCEPT !.phase = "test"]

\* the state events a log may be made of
Observations ==
    {<<"traffic", TRUE>>, <<"traffic", FALSE>>, <<"water", TRUE>>}

CpsInit ==
    /\ model = [t \in Thresholds |-> NewModel(0, 0, t)]
    /\ pc = "cps"
    /\ rows = NoRows
    /\ twin = NewTwin
    /\ stream = <<>>
    /\ sweep = NoSweep
    /\ cps_call = NoCps

\* one more state event in the log, of a step the log does not have yet
CpsObserve ==
    /\ Len(cps_call.log) < MaxStates
    /\ \E o \in Observations :
       \E step \in (0..(MaxStates - 1)) \ {cps_call.log[i].step : i \in DOMAIN cps_call.log} :
          cps_call' = [log |-> Append(cps_call.log, ObservedState(o[1], o[2], step)),
                       result |-> None]
    /\ UNCHANGED <<model, pc, rows, twin, stream, sweep>>

\* sdp, avg_dur, severity_by_actor = compute_cps_metrics(log, "traffic")
CpsMeasure ==
    /\ cps_call.result = None
    /\ cps_call' = [cps_call EXCEPT !.result = Some(compute_cps_metrics(cps_call.log, "traffic"))]
    /\ UNCHANGED <<model, pc, rows, twin, stream, sweep>>

CpsNext == CpsObserve \/ CpsMeasure

CpsSpec == CpsInit /\ [][CpsNext]_vars

---------------------------------------------------------------------------
(* run_sweep (sweep_thresholds_ablation_LSC.py): the whole sweep, over the   *)
(* thresholds and the seeds, its summary and the table it writes             *)

\* what --model refers to: a module with run_simulation; a path for which
\* importlib finds no loader; a path with no file; a file that is not Python;
\* a module without run_simulation
ModelRefs == {"ok", "no_loader", "missing_file", "bad_source", "no_run_simulation"}

\* --threshold_min and --threshold_max
SweepThresholds == 1..3

\* --warmup_steps and --test_steps
SweepConfigs == {<<0, 2>>, <<1, 1>>}

\* the streams the seeds' generators may produce over the two steps of a
\* run: nothing fires; the stealth actor's query, then its query and its
\* tweak; the staging actor's batch, then the stealth actor's query and
\* tweak; the takeover actor's push
SweepStreams ==
    {<<{}, {}>>,
     <<{FirstAttackerDraw + 2}, {FirstAttackerDraw + 2, FirstAttackerDraw + 3}>>,
     <<{FirstAttackerDraw + 4}, {FirstAttackerDraw + 2, FirstAttackerDraw + 3}>>,
     <<{FirstAttackerDraw + 1}, {}>>}

SweepArgs ==
    [model : ModelRefs, seeds : (-1)..MaxSeeds,
     warmup_steps : {c[1] : c \in SweepConfigs}, test_steps : {c[2] : c \in SweepConfigs},
     threshold_min : SweepThresholds, threshold_max : SweepThresholds]

\* an exception, by its class and the call that raises it
Raised(exception, call) == [exception |-> exception, call |-> call]

\* load_model(path): the module, or the exception it ends with.  With no
\* loader for the path spec_from_file_location returns None and
\* module_from_spec(None) raises before the assert is reached.
load_model(ref) ==
    CASE ref = "no_loader" -> [module |-> None,
                               error |-> Some(Raised("AttributeError", "module_from_spec"))]
      [] ref = "missing_file" -> [module |-> None,
                                  error |-> Some(Raised("FileNotFoundError", "exec_module"))]
      [] ref = "bad_source" -> [module |-> None,
                                error |-> Some(Raised("SyntaxError", "exec_module"))]
      [] OTHER -> [module |-> Some(ref), error |-> None]

\* a slip: range(threshold_min, threshold_max)
ThresholdRangeExclusive(lo, hi) == [i \in 1..(hi - lo) |-> lo + i - 1]

\* range(threshold_min, threshold_max + 1)
ThresholdRange(lo, hi) == [i \in 1..(hi - lo + 1) |-> lo + i - 1]

\* range(seeds)
SeedRange(n) == [i \in 1..n |-> i - 1]

\* the pairs the two nested loops go through, in their order
RECURSIVE LoopPairs(_, _, _)
LoopPairs(thresholds, seeds, i) ==
    IF i > Len(thresholds) THEN <<>>
    ELSE [j \in 1..Len(seeds) |-> <<thresholds[i], seeds[j]>>]
            \o LoopPairs(thresholds, seeds, i + 1)

PairsOf(args) ==
    LoopPairs(ThresholdRange(args.threshold_min, args.threshold_max), SeedRange(args.seeds), 1)

\* {"threshold": threshold, "seed": seed, **metrics}
Row(threshold, seed, metrics) ==
    [c \in {"threshold", "seed"} \cup DOMAIN metrics |->
        IF c = "threshold" THEN threshold ELSE IF c = "seed" THEN seed ELSE metrics[c]]

RECURSIVE Gcd(_, _)
Gcd(a, b) == IF b = 0 THEN a ELSE Gcd(b, a % b)

\* the float a quotient stands for, whatever its numerator and denominator
Reduce(f) == Frac(f.num \div Gcd(f.num, f.den), f.den \div Gcd(f.num, f.den))

\* the columns of the summary that are averaged, and those that can hold None
MetricColumns ==
    {"actor_precision", "actor_recall", "actor_f1", "mean_ttd", "iw_ttd", "sdp",
     "avg_degraded_mode_duration"}

NullableColumns == {"mean_ttd", "iw_ttd"}

\* a cell of the data frame: None (NaN) or a float
Cell(row, c) == IF c \in NullableColumns THEN row[c] ELSE Some(row[c])

\* a slip: the missing values taken as 0.0 (fillna) instead of skipped
NullAsZero(values) ==
    [i \in 1..Len(values) |-> IF values[i] = None THEN Some(Frac(0, 1)) ELSE values[i]]

\* the values "mean" averages: the missing ones are skipped
NonNull(values) == SelectSeq(values, LAMBDA v : v # None)

RECURSIVE SumCells(_, _)
SumCells(values, i) ==
    IF i = 0 THEN Frac(0, 1)
    ELSE Reduce(FAdd(SumCells(values, i - 1), Reduce(TheValue(values[i]))))

\* a slip: the mean over the count of all the rows, the missing ones included
MeanCountingNulls(values) ==
    IF Len(NonNull(values)) = 0 THEN None
    ELSE Some(Reduce(FDiv(SumCells(NonNull(values), Len(NonNull(values))),
                          Frac(Len(values), 1))))

\* the "mean" of a group's column: NaN when every value is missing
Mean(values) ==
    IF Len(NonNull(values)) = 0 THEN None
    ELSE Some(Reduce(FDiv(SumCells(NonNull(values), Len(NonNull(values))),
                          Frac(Len(NonNull(values)), 1))))

\* the column c of the group of threshold t
GroupColumn(rs, t, c) ==
    LET group == SelectSeq(rs, LAMBDA r : r.threshold = t)
    IN  [i \in 1..Len(group) |-> Cell(group[i], c)]

\* df.groupby("threshold", as_index=False).agg(...): one row per threshold
\* of the frame, the thresholds in ascending order
Summarise(rs) ==
    LET keys == Sorted({rs[i].threshold : i \in DOMAIN rs})
    IN  [k \in 1..Len(keys) |->
            [c \in {"threshold"} \cup MetricColumns |->
                IF c = "threshold" THEN keys[k] ELSE Mean(GroupColumn(rs, keys[k], c))]]

SweepInit ==
    /\ model = [t \in Thresholds |-> NewModel(0, 0, t)]
    /\ pc = "sweep"
    /\ rows = NoRows
    /\ twin = NewTwin
    /\ stream = <<>>
    /\ cps_call = NoCps
    /\ \E args \in SweepArgs :
          /\ <<args.warmup_steps, args.test_steps>> \in SweepConfigs
          /\ \E streams \in [0..(args.seeds - 1) -> SweepStreams] :
                sweep = [pc |-> "load", args |-> args, streams |-> streams, module |-> None,
                         rows |-> <<>>, runs |-> <<>>, summary |-> None, file |-> None,
                         stdout |-> <<>>, error |-> None]

\* module = load_model(args.model)
SweepLoad ==
    /\ sweep.pc = "load"
    /\ LET loaded == load_model(sweep.args.model)
       IN  sweep' = [sweep EXCEPT !.module = loaded.module,
                                  !.error = loaded.error,
                                  !.pc = IF loaded.error = None THEN "loop" ELSE "raised"]
    /\ UNCHANGED <<model, pc, rows, twin, stream, cps_call>>

\* one turn of the inner loop: module.run_simulation(...), eval_from_events,
\* rows.append
SweepRun ==
    /\ sweep.pc = "loop"
    /\ Len(sweep.rows) < Len(PairsOf(sweep.args))
    /\ LET pair == PairsOf(sweep.args)[Len(sweep.rows) + 1]
           threshold == pair[1]
           seed == pair[2]
       IN  IF sweep.module = Some("no_run_simulation")
           THEN sweep' = [sweep EXCEPT !.error = Some(Raised("AttributeError", "run_simulation")),
                                       !.pc = "raised"]
           ELSE LET events == run_simulation(sweep.streams[seed], sweep.args.warmup_steps,
                                             sweep.args.test_steps, threshold)
                    metrics == eval_from_events(events)
                IN  sweep' = [sweep EXCEPT !.runs = Append(@, <<threshold, seed>>),
                                           !.rows = Append(@, Row(threshold, seed, metrics))]
    /\ UNCHANGED <<model, pc, rows, twin, stream, cps_call>>

\* df = pd.DataFrame(rows); summary = df.groupby("threshold", ...).agg(...):
\* a frame of no rows has no column "threshold"
SweepAggregate ==
    /\ sweep.pc = "loop"
    /\ Len(sweep.rows) = Len(PairsOf(sweep.args))
    /\ IF sweep.rows = <<>>
       THEN sweep' = [sweep EXCEPT !.error = Some(Raised("KeyError", "groupby")),
                                   !.pc = "raised"]
       ELSE sweep' = [sweep EXCEPT !.summary = Some(Summarise(sweep.rows)), !.pc = "write"]
    /\ UNCHANGED <<model, pc, rows, twin, stream, cps_call>>

\* summary.to_csv(args.out, index=False); return summary; main prints the path
SweepWrite ==
    /\ sweep.pc = "write"
    /\ sweep' = [sweep EXCEPT !.file = sweep.summary, !.stdout = <<"Wrote">>,
                              !.pc = "returned"]
    /\ UNCHANGED <<model, pc, rows, twin, stream, cps_call>>

SweepNext == SweepLoad \/ SweepRun \/ SweepAggregate \/ SweepWrite

SweepSpec == SweepInit /\ [][SweepNext]_vars

---------------------------------------------------------------------------
(* Reading a log *)

Indices(evs, s) == {i \in DOMAIN evs : evs[i].step = s}

AlertsAt(evs, s) == {i \in Indices(evs, s) : evs[i].event_type = "alert_confirmed"}

AlertActorsAt(evs, s) == {evs[i].actor_id : i \in AlertsAt(evs, s)}

RollbacksAt(evs, s) ==
    {i \in Indices(evs, s) : evs[i].event_type = "cps_command" /\ CmdIs(evs[i], "ROLLBACK_PLAN")}

StatesAt(evs, s) == {i \in Indices(evs, s) : evs[i].event_type = CPS_STATE_TYPE}

\* distinct actors >= 0 with a malicious event at a step <= s
MaliciousActorsUpTo(evs, s) ==
    {evs[i].actor_id : i \in {j \in DOMAIN evs : IsSuspicious(evs[j]) /\ evs[j].step <= s}}

StepsDone(m) == 0..(m.step_idx - 1)

StateEvents(evs) == SelectSeq(evs, LAMBDA e : e.event_type = CPS_STATE_TYPE)

HasAlert(evs) == \E i \in DOMAIN evs : evs[i].event_type = "alert_confirmed"

\* the threshold the five malicious actors cannot reach by their number
UnreachableThreshold == Len(scenarios) + 1

---------------------------------------------------------------------------
(* Claims *)

\* C1: at every step, alert_confirmed events are emitted iff the number of
\* distinct actors >= 0 with a malicious event anywhere in the log so far
\* (earlier steps and this one) is >= the threshold, and then exactly one
\* alert_confirmed is emitted for every such actor.
C1_CumulativeMonitor ==
    \A t \in Thresholds : \A s \in StepsDone(model[t]) :
        LET evs == model[t].events
            suspects == MaliciousActorsUpTo(evs, s)
        IN  /\ (AlertsAt(evs, s) # {}) <=> (Cardinality(suspects) >= t)
            /\ AlertsAt(evs, s) # {} =>
                  \A a \in suspects :
                      Cardinality({i \in AlertsAt(evs, s) : evs[i].actor_id = a}) = 1

\* C2: confirmation monotonicity: an actor confirmed at step s is confirmed
\* again at every later step of the run.
C2_ConfirmationMonotone ==
    \A t \in Thresholds : \A s \in StepsDone(model[t]) : \A s2 \in StepsDone(model[t]) :
        s < s2 => AlertActorsAt(model[t].events, s) \subseteq AlertActorsAt(model[t].events, s2)

\* the twin as the state event of step s reports it
TwinReported(evs, s) ==
    LET meta == evs[CHOOSE i \in StatesAt(evs, s) : TRUE].meta
    IN  [NewTwin EXCEPT !.severity = meta.severity, !.degraded = meta.degraded,
                        !.cause_actor_id = meta.cause_actor_id]

\* the commands the actors issue in step s, in emission order
ActorCommandsAt(evs, s) ==
    SelectSeq(evs, LAMBDA e : e.step = s /\ e.event_type = "cps_command" /\ e.actor_id >= 0)

\* C3: a ROLLBACK_PLAN emitted at step s is consumed by the twin at step s+1:
\* the severity of step s+1 is the decayed severity of step s lowered by 0.3
\* (not below 0, the cause cleared under 0.25), then raised by the commands of
\* step s+1; the state event of step s itself precedes the rollback.
C3_RollbackNextStep ==
    \A t \in Thresholds : \A s \in StepsDone(model[t]) :
        LET evs == model[t].events
        IN  RollbacksAt(evs, s) # {} =>
              /\ \A i \in StatesAt(evs, s) : \A j \in RollbacksAt(evs, s) : i < j
              /\ (s + 1) \in StepsDone(model[t]) =>
                    LET before == TwinReported(evs, s)
                        after == TwinScan(RollbackPlan(Decay(before)), ActorCommandsAt(evs, s + 1), 1)
                        seen == TwinReported(evs, s + 1)
                    IN  /\ seen.severity = Round4(after.severity)
                        /\ seen.cause_actor_id = after.cause_actor_id

\* C4: with confirmation threshold 6 no alert_confirmed event is ever
\* emitted, so the evaluator's confirmed set is empty.
C4_UnreachableThreshold ==
    LET evs == model[UnreachableThreshold].events
    IN  /\ ~HasAlert(evs)
        /\ ActorsWith(filter_to_test(evs), "alert_confirmed") = {}

---------------------------------------------------------------------------
(* The evaluator's quantities, read off the test phase of a log *)

TestIdx(evs) == {i \in DOMAIN evs : evs[i].phase = "test"}

TestMalicious(evs) ==
    {evs[i].actor_id : i \in {j \in TestIdx(evs) : IsSuspicious(evs[j])}}

TestConfirmed(evs) ==
    {evs[i].actor_id : i \in {j \in TestIdx(evs) : IsAlert(evs[j]) /\ evs[j].actor_id >= 0}}

SetMax(S) == CHOOSE x \in S : \A y \in S : y <= x

FirstMaliciousStep(evs, a) ==
    SetMin({evs[i].step : i \in {j \in TestIdx(evs) : IsSuspicious(evs[j]) /\ evs[j].actor_id = a}})

LastTestStep(evs) ==
    IF TestIdx(evs) = {} THEN 0 ELSE SetMax({evs[i].step : i \in TestIdx(evs)})

\* the severities the twin attributes to actor a in the test phase
AttributedSeverities(evs, a) ==
    {evs[i].meta.severity :
        i \in {j \in TestIdx(evs) : IsServiceState(evs[j], "traffic")
                                    /\ evs[j].meta.cause_actor_id = Some(a)}}

WeightOf(evs, a) ==
    IF AttributedSeverities(evs, a) # {} THEN SetMax(AttributedSeverities(evs, a))
    ELSE SCENARIO_IMPACT[scenarios[a + 1]]

C6_TwinIgnoresThreshold ==
    \A t1 \in Thresholds : \A t2 \in Thresholds :
        StateEvents(model[t1].events) = StateEvents(model[t2].events)

\* one threshold confirms, another never does, and the run that never
\* confirms still reports sdp = 1.0
C6_Witness ==
    /\ pc = "evaluated"
    /\ \E t1 \in Thresholds : \E t2 \in Thresholds :
          /\ HasAlert(model[t1].events)
          /\ ~HasAlert(model[t2].events)
          /\ TheValue(rows[t2]).sdp = Frac(1, 1)

\* C7: every event of every log has phase train iff its step < warmup_steps
\* and phase test otherwise, whatever its kind.
C7_PhaseCorrect ==
    \A t \in Thresholds : \A i \in DOMAIN model[t].events :
        LET e == model[t].events[i]
        IN  /\ e.phase \in {"train", "test"}
            /\ (e.phase = "train") <=> (e.step < model[t].warmup_steps)

KindsIn(evs, phase) ==
    {<<evs[i].event_type, evs[i].actor_id >= 0>> : i \in {j \in DOMAIN evs : evs[j].phase = phase}}

\* a log with actor events, a state event, an alert and a rollback in the
\* train phase and again in the test phase
C7_Witness ==
    \E t \in Thresholds : \A phase \in {"train", "test"} :
        {<<"auth", TRUE>>, <<"cps_command", TRUE>>, <<"cps_service_state", FALSE>>,
         <<"alert_confirmed", TRUE>>, <<"cps_command", FALSE>>}
            \subseteq KindsIn(model[t].events, phase)

\* C8: the twin's severity is within [0, 1] after every single update of a
\* step (the decay and each command), so every state event carries a
\* severity within [0, 1].
C8_SeverityBound ==
    /\ \A i \in DOMAIN twin.writes : 0 <= twin.writes[i] /\ twin.writes[i] <= One
    /\ 0 <= twin.severity /\ twin.severity <= One
    /\ 0 <= StateMeta(twin).severity /\ StateMeta(twin).severity <= One

\* a step that decays a saturated twin and tweaks it back to exactly 1.0
\* after a push that left it unchanged
C8_Witness ==
    /\ Len(twin.writes) = 3
    /\ twin.writes[1] < One
    /\ twin.writes[2] = twin.writes[1]
    /\ twin.writes[3] = One
    /\ twin.writes[1] + TweakSeverityInc > One

\* C9: a ROLLBACK_PLAN command with actor_id -1 and label benign is appended
\* in a step iff an alert_confirmed event was produced in that step; there
\* is at most one per step and it follows the step's alert_confirmed events.
C9_RollbackIffAlert ==
    \A t \in Thresholds : \A s \in StepsDone(model[t]) :
        LET evs == model[t].events
            rb == {i \in Indices(evs, s) : CmdIs(evs[i], "ROLLBACK_PLAN")}
        IN  /\ (rb # {}) <=> (AlertsAt(evs, s) # {})
            /\ Cardinality(rb) <= 1
            /\ \A i \in rb :
                  /\ evs[i].event_type = "cps_command"
                  /\ evs[i].actor_id = -1
                  /\ evs[i].label = "benign"
                  /\ \A j \in AlertsAt(evs, s) : j < i

\* a run with a step that confirms and rolls back and a step that does neither
C9_Witness ==
    \E t \in Thresholds : \E s1 \in StepsDone(model[t]) : \E s2 \in StepsDone(model[t]) :
        /\ Cardinality(AlertsAt(model[t].events, s1)) > 1
        /\ RollbacksAt(model[t].events, s1) # {}
        /\ AlertsAt(model[t].events, s2) = {}
        /\ RollbacksAt(model[t].events, s2) = {}
        /\ model[t].traffic_twin.degraded

\* C10: run_simulation terminates, and when it has the step counter equals
\* warmup_steps + test_steps and exactly that many steps were executed
\* (one state event and 14 draws each), whatever the steps produced.
C10_Termination ==
    /\ <>(pc = "returned")
    /\ [](pc # "running" =>
            \A t \in Thresholds :
                /\ model[t].step_idx = model[t].warmup_steps + model[t].test_steps
                /\ Len(StateEvents(model[t].events)) = model[t].warmup_steps + model[t].test_steps
                /\ model[t].rng_calls = DrawsPerStep * (model[t].warmup_steps + model[t].test_steps))

\* a finished run of MaxSteps steps in which a threshold confirmed and the
\* twin degraded
C10_Witness ==
    /\ pc = "returned"
    /\ \E t \in Thresholds :
          /\ model[t].step_idx = MaxSteps
          /\ model[t].warmup_steps > 0
          /\ HasAlert(model[t].events)
          /\ model[t].traffic_twin.degraded

\* C11: every step k of a run contributes exactly one cps_service_state
\* event, with actor_id -1, service traffic and step k, whatever the actors
\* did; so the largest step in the log of a finished run of at least one
\* step is warmup_steps + test_steps - 1.
C11_OneStatePerStep ==
    \A t \in Thresholds :
        LET evs == model[t].events
        IN  /\ \A s \in StepsDone(model[t]) :
                  /\ Cardinality(StatesAt(evs, s)) = 1
                  /\ \A i \in StatesAt(evs, s) :
                        evs[i].actor_id = -1 /\ evs[i].meta.service = "traffic"
            /\ \A i \in DOMAIN evs :
                  evs[i].event_type = CPS_STATE_TYPE => evs[i].step \in StepsDone(model[t])
            /\ (pc # "running" /\ model[t].warmup_steps + model[t].test_steps >= 1) =>
                  MaxStep(evs) = model[t].warmup_steps + model[t].test_steps - 1

\* a finished run of MaxSteps steps with a step in which nobody acted and a
\* step in which every rule fired
C11_Witness ==
    /\ pc = "returned"
    /\ \E t \in Thresholds :
          /\ model[t].step_idx = MaxSteps
          /\ \E s \in StepsDone(model[t]) :
                Indices(model[t].events, s) = StatesAt(model[t].events, s)
          /\ \E s \in StepsDone(model[t]) :
                Cardinality(Indices(model[t].events, s)) > DrawsPerStep

\* C12: every event labelled malicious has actor_id in 0..4; the events of
\* the benign pool (5..11), of the twin and the system (-1), the
\* alert_confirmed events and the ROLLBACK_PLAN events are labelled benign.
C12_Labels ==
    \A t \in Thresholds : \A i \in DOMAIN model[t].events :
        LET e == model[t].events[i]
        IN  /\ e.label = "malicious" => e.actor_id \in 0..(Len(scenarios) - 1)
            /\ (\/ e.actor_id \in BenignFirst..BenignLast
                \/ e.actor_id = -1
                \/ e.event_type = "alert_confirmed"
                \/ CmdIs(e, "ROLLBACK_PLAN")) => e.label = "benign"

\* a log with a malicious event of each of the five attackers, a login of
\* the benign pool, a state event, an alert on an attacker and a rollback
C12_Witness ==
    \E t \in Thresholds :
        LET evs == model[t].events
        IN  /\ \A a \in 0..(Len(scenarios) - 1) :
                  \E i \in DOMAIN evs : evs[i].actor_id = a /\ evs[i].label = "malicious"
            /\ \E i \in DOMAIN evs : evs[i].actor_id = BenignLast /\ evs[i].label = "benign"
            /\ \E i \in DOMAIN evs : evs[i].event_type = CPS_STATE_TYPE
            /\ \E i \in DOMAIN evs :
                  evs[i].event_type = "alert_confirmed" /\ evs[i].actor_id = 0
            /\ \E i \in DOMAIN evs : CmdIs(evs[i], "ROLLBACK_PLAN")

C14_StepsMonotone ==
    \A t \in Thresholds :
        LET evs == model[t].events
        IN  /\ \A i \in DOMAIN evs : evs[i].step >= 0
            /\ \A i \in DOMAIN evs : \A j \in DOMAIN evs :
                  i < j => evs[i].step <= evs[j].step

\* a log with several events in step 0, alerts and a rollback among them,
\* followed by events of step 1
C14_Witness ==
    \E t \in Thresholds :
        LET evs == model[t].events
        IN  /\ Cardinality(Indices(evs, 0)) > DrawsPerStep
            /\ RollbacksAt(evs, 0) # {}
            /\ Cardinality(Indices(evs, 1)) > 1

FirstConfirmedStep(evs, a) ==
    SetMin({evs[i].step : i \in {j \in TestIdx(evs) : IsAlert(evs[j]) /\ evs[j].actor_id = a}})

\* the TTD of a test-phase malicious actor, censored at the last test step
TtdOf(evs, a) ==
    IF a \in TestConfirmed(evs) THEN FirstConfirmedStep(evs, a) - FirstMaliciousStep(evs, a)
    ELSE LastTestStep(evs) - FirstMaliciousStep(evs, a)

TotalWeight(evs) ==
    SumOver(TestMalicious(evs), [a \in TestMalicious(evs) |-> WeightOf(evs, a)])

WeightedTtd(evs) ==
    SumOver(TestMalicious(evs), [a \in TestMalicious(evs) |-> WeightOf(evs, a) * TtdOf(evs, a)])

\* C15 as written: iw_ttd is null iff no actor has a malicious event in the
\* test phase; whenever one has, iw_ttd is the number
\* sum(w_a * ttd_a) / sum(w_a) over those actors.
C15_NullIffNoMalicious ==
    pc = "evaluated" =>
        \A t \in Thresholds :
            LET evs == model[t].events
                r == TheValue(rows[t])
            IN  /\ (r.iw_ttd = None) <=> (TestMalicious(evs) = {})
                /\ TestMalicious(evs) # {} =>
                      r.iw_ttd = Some(Frac(WeightedTtd(evs), TotalWeight(evs)))

\* C15 amended: iw_ttd is null iff the impact weights of the test-phase
\* malicious actors sum to 0, which is so when there is no such actor and
\* also when each of them has 0.0 as the largest severity attributed to it;
\* whenever the sum is positive, iw_ttd is sum(w_a * ttd_a) / sum(w_a).
C15_NullIffNoWeight ==
    pc = "evaluated" =>
        \A t \in Thresholds :
            LET evs == model[t].events
                r == TheValue(rows[t])
            IN  /\ (r.iw_ttd = None) <=> (TotalWeight(evs) = 0)
                /\ TestMalicious(evs) = {} => TotalWeight(evs) = 0
                /\ TotalWeight(evs) > 0 =>
                      r.iw_ttd = Some(Frac(WeightedTtd(evs), TotalWeight(evs)))

\* a run whose only malicious actor of the test phase is the cause of a
\* severity decayed to 0.0, with a null iw_ttd
C15_Witness ==
    /\ pc = "evaluated"
    /\ \E t \in Thresholds :
          /\ TestMalicious(model[t].events) # {}
          /\ \A a \in TestMalicious(model[t].events) :
                AttributedSeverities(model[t].events, a) = {0}
          /\ TheValue(rows[t]).iw_ttd = None

\* C16: in iw_ttd the TTD of a malicious actor a is first_confirmed_step[a] -
\* first_malicious_step[a] when a has an alert_confirmed event in the test
\* phase and otherwise last_observed_step - first_malicious_step[a], with
\* last_observed_step the largest step of a test-phase event; an undetected
\* malicious actor is never left out of the weighted sum.
C16_CensoredTtd ==
    pc = "evaluated" =>
        \A t \in Thresholds :
            LET evs == model[t].events
                events == filter_to_test(evs)
                first_mal_step == FirstStep(events, Len(events), "malicious")
                first_conf_step == FirstStep(events, Len(events), "alert_confirmed")
                mal == TestMalicious(evs)
                expected == [a \in mal |->
                    IF \E i \in TestIdx(evs) : IsAlert(evs[i]) /\ evs[i].actor_id = a
                    THEN FirstConfirmedStep(evs, a) - FirstMaliciousStep(evs, a)
                    ELSE LastTestStep(evs) - FirstMaliciousStep(evs, a)]
                w == [a \in mal |-> WeightOf(evs, a)]
                r == TheValue(rows[t])
            IN  /\ \A a \in mal :
                      /\ a \in DOMAIN first_mal_step
                      /\ CensoredTtd(a, first_mal_step, first_conf_step, MaxStep(events))
                            = expected[a]
                      /\ expected[a] >= 0
                /\ r.iw_ttd # None =>
                      /\ TheValue(r.iw_ttd).den = SumOver(mal, w)
                      /\ TheValue(r.iw_ttd).num = SumOver(mal, [a \in mal |-> w[a] * expected[a]])

\* a run with a malicious actor confirmed a step after its first malicious
\* event and another never confirmed, whose wait up to the last test step
\* enters a numeric iw_ttd
C16_Witness ==
    /\ pc = "evaluated"
    /\ \E t \in Thresholds :
          LET evs == model[t].events
          IN  /\ \E a \in TestMalicious(evs) \cap TestConfirmed(evs) :
                    FirstConfirmedStep(evs, a) > FirstMaliciousStep(evs, a)
              /\ \E b \in TestMalicious(evs) \ TestConfirmed(evs) :
                    /\ LastTestStep(evs) > FirstMaliciousStep(evs, b)
                    /\ WeightOf(evs, b) > 0
              /\ TheValue(rows[t]).iw_ttd # None
              /\ TheValue(TheValue(rows[t]).iw_ttd).num > 0

\* C17: mean_ttd is the arithmetic mean of first_confirmed_step[a] -
\* first_malicious_step[a] over exactly the actors with a malicious and an
\* alert_confirmed event in the test phase, each first step being the least
\* step of the matching test-phase events; it is null exactly when there is
\* no such actor.
C17_MeanTtd ==
    pc = "evaluated" =>
        \A t \in Thresholds :
            LET evs == model[t].events
                both == TestMalicious(evs) \cap TestConfirmed(evs)
                wait == [a \in both |-> FirstConfirmedStep(evs, a) - FirstMaliciousStep(evs, a)]
                r == TheValue(rows[t])
            IN  /\ (r.mean_ttd = None) <=> (both = {})
                /\ both # {} =>
                      r.mean_ttd = Some(Frac(SumOver(both, wait), Cardinality(both)))

\* a run in which one actor waits a step for its confirmation, with malicious
\* events in both steps, and the others are confirmed at once: a mean that
\* is no integer
C17_Witness ==
    /\ pc = "evaluated"
    /\ \E t \in Thresholds :
          LET evs == model[t].events
              r == TheValue(rows[t])
          IN  /\ \E a \in TestMalicious(evs) \cap TestConfirmed(evs) :
                    /\ FirstConfirmedStep(evs, a) > FirstMaliciousStep(evs, a)
                    /\ \E i \in TestIdx(evs) :
                          /\ IsSuspicious(evs[i]) /\ evs[i].actor_id = a
                          /\ evs[i].step > FirstMaliciousStep(evs, a)
              /\ r.mean_ttd # None
              /\ TheValue(r.mean_ttd).num > 0
              /\ TheValue(r.mean_ttd).num < TheValue(r.mean_ttd).den

\* C18: precision = |malicious /\ confirmed| / |confirmed| and recall =
\* |malicious /\ confirmed| / |malicious| over the sets of distinct actor ids
\* >= 0 with a malicious-labelled, respectively alert_confirmed, event in the
\* test phase; precision is 0 when confirmed is empty, recall 0 when
\* malicious is empty.
C18_PrecisionRecall ==
    pc = "evaluated" =>
        \A t \in Thresholds :
            LET evs == model[t].events
                mal == TestMalicious(evs)
                conf == TestConfirmed(evs)
                hit == Cardinality(mal \cap conf)
                r == TheValue(rows[t])
            IN  /\ r.actor_precision =
                      IF conf = {} THEN Frac(0, 1) ELSE Frac(hit, Cardinality(conf))
                /\ r.actor_recall =
                      IF mal = {} THEN Frac(0, 1) ELSE Frac(hit, Cardinality(mal))

\* a run that confirmed in the train phase and whose test phase has one
\* malicious actor confirmed and another not: a recall strictly between 0 and 1
C18_Witness ==
    /\ pc = "evaluated"
    /\ \E t \in Thresholds :
          LET evs == model[t].events
              r == TheValue(rows[t])
          IN  /\ \E i \in DOMAIN evs : IsAlert(evs[i]) /\ evs[i].phase = "train"
              /\ TestConfirmed(evs) # {}
              /\ TestMalicious(evs) \ TestConfirmed(evs) # {}
              /\ r.actor_precision = Frac(1, 1)
              /\ 0 < r.actor_recall.num /\ r.actor_recall.num < r.actor_recall.den

\* a quotient of two integers that is a number within [0, 1]
InUnit(f) == f.den > 0 /\ 0 <= f.num /\ f.num <= f.den

\* C19: for the log of every run eval_from_events returns actor_precision,
\* actor_recall, actor_f1 and sdp each within [0, 1].
C19_MetricBounds ==
    pc = "evaluated" =>
        \A t \in Thresholds :
            LET r == TheValue(rows[t])
            IN  /\ InUnit(r.actor_precision)
                /\ InUnit(r.actor_recall)
                /\ InUnit(r.actor_f1)
                /\ InUnit(r.sdp)

\* a run with a degraded twin, sdp = 1.0, and an F1 strictly between 0 and 1
C19_Witness ==
    /\ pc = "evaluated"
    /\ \E t \in Thresholds :
          LET r == TheValue(rows[t])
          IN  /\ r.sdp = Frac(1, 1)
              /\ 0 < r.actor_f1.num /\ r.actor_f1.num < r.actor_f1.den
              /\ 0 < r.actor_recall.num /\ r.actor_recall.num < r.actor_recall.den

\* logs cut out of the log of a run: the log itself, the empty log, its train
\* phase, and the log without its state events, its alerts, its malicious events
LogsOf(evs) ==
    {evs, <<>>,
     SelectSeq(evs, LAMBDA e : e.phase = "train"),
     SelectSeq(evs, LAMBDA e : e.event_type # CPS_STATE_TYPE),
     SelectSeq(evs, LAMBDA e : ~IsAlert(e)),
     SelectSeq(evs, LAMBDA e : ~IsMalicious(e))}

\* no quotient of the result was taken with a zero denominator
Defined(r) ==
    /\ \A f \in {r.actor_precision, r.actor_recall, r.actor_f1, r.sdp,
                  r.avg_degraded_mode_duration} : f.den # 0
    /\ \A f \in r.mean_ttd \cup r.iw_ttd : f.den # 0

TestDegraded(log) ==
    {i \in TestIdx(log) : IsServiceState(log[i], "traffic") /\ log[i].meta.degraded}

\* C20: eval_from_events never divides by zero: for every log, the empty
\* log and logs without test-phase events, malicious actors, confirmed
\* actors or state events included, precision, recall, F1, sdp and
\* avg_degraded_mode_duration are 0 when their denominator is empty and
\* mean_ttd and iw_ttd are null when theirs is.
C20_NoDivisionByZero ==
    pc = "evaluated" =>
        \A t \in Thresholds : \A log \in LogsOf(model[t].events) :
            LET r == eval_from_events(log)
                mal == TestMalicious(log)
                conf == TestConfirmed(log)
            IN  /\ Defined(r)
                /\ conf = {} => r.actor_precision = Frac(0, 1)
                /\ mal = {} => r.actor_recall = Frac(0, 1)
                /\ mal \cap conf = {} => r.actor_f1 = Frac(0, 1) /\ r.mean_ttd = None
                /\ TestDegraded(log) = {} =>
                      r.sdp = Frac(0, 1) /\ r.avg_degraded_mode_duration = Frac(0, 1)
                /\ TotalWeight(log) = 0 => r.iw_ttd = None
                /\ TestIdx(log) = {} =>
                      /\ r.num_actors = 0 /\ r.num_mal_actors = 0
                      /\ r.mean_ttd = None /\ r.iw_ttd = None

\* a run with a degraded and confirmed test phase and a train phase, so that
\* the logs cut out of it lack, in turn, the test phase, the state events,
\* the confirmed actors and the malicious actors
C20_Witness ==
    /\ pc = "evaluated"
    /\ \E t \in Thresholds :
          LET evs == model[t].events
          IN  /\ TestDegraded(evs) # {}
              /\ TestConfirmed(evs) # {}
              /\ TestMalicious(evs) \ TestConfirmed(evs) # {}
              /\ TestIdx(evs) # DOMAIN evs
              /\ Cardinality(LogsOf(evs)) = 6
              /\ TheValue(rows[t]).avg_degraded_mode_duration.num > 0

\* the fallback table of the impact weights
FallbackWeight(scenario) ==
    CASE scenario = "acct_takeover" -> One
      [] scenario = "stealth" -> (6 * One) \div 10
      [] scenario = "staging_exfil" -> (75 * One) \div 100
      [] scenario = "exfil" -> (8 * One) \div 10
      [] scenario = "email_only" -> (5 * One) \div 10

\* the scenario the test-phase events of actor a carry
ScenarioOf(evs, a) ==
    CHOOSE sc \in {TheValue(evs[i].scenario) :
                      i \in {j \in TestIdx(evs) : evs[j].actor_id = a /\ evs[j].scenario # None}} : TRUE

\* C21: the impact weight w_a of a malicious actor a is the largest severity
\* of the test-phase traffic state events whose cause_actor_id is a when
\* there is one, and otherwise the fallback value of a's scenario
\* (acct_takeover 1.0, stealth 0.6, staging_exfil 0.75, exfil 0.8,
\* email_only 0.5).
C21_ImpactWeight ==
    pc = "evaluated" =>
        \A t \in Thresholds :
            LET evs == model[t].events
                events == filter_to_test(evs)
                by_twin == compute_cps_metrics(events, "traffic").severity_by_actor
                by_scenario == ScenarioByActor(events, Len(events))
                mal == TestMalicious(evs)
                expected == [a \in mal |->
                    IF AttributedSeverities(evs, a) # {}
                    THEN SetMax(AttributedSeverities(evs, a))
                    ELSE FallbackWeight(ScenarioOf(evs, a))]
                r == TheValue(rows[t])
            IN  /\ \A a \in mal : ImpactWeight(a, by_twin, by_scenario) = expected[a]
                /\ r.iw_ttd # None => TheValue(r.iw_ttd).den = SumOver(mal, expected)

\* a run whose test phase has an actor that the twin names as cause with a
\* severity that decays afterwards, and the five scenarios among the actors
\* weighted by the table
C21_Witness ==
    /\ pc = "evaluated"
    /\ \E t \in Thresholds :
          LET evs == model[t].events
          IN  /\ \E a \in TestMalicious(evs) : Cardinality(AttributedSeverities(evs, a)) > 1
              /\ \E b \in TestMalicious(evs) : AttributedSeverities(evs, b) = {}
    /\ \E t \in Thresholds :
          LET evs == model[t].events
          IN  {ScenarioOf(evs, a) : a \in {b \in TestMalicious(evs) : AttributedSeverities(evs, b) = {}}}
                 = {"acct_takeover", "staging_exfil", "exfil", "email_only"}

\* the test phase of a log
TestPart(evs) == SelectSeq(evs, LAMBDA e : e.phase = "test")

\* a log without the malicious events and the alerts of its train phase
WithoutTrainSignals(evs) ==
    SelectSeq(evs, LAMBDA e : ~(e.phase = "train" /\ (IsMalicious(e) \/ IsAlert(e))))

\* C23: the evaluator's result depends only on the test-phase events:
\* eval_from_events(log) = eval_from_events(filter_to_test(log)), two logs
\* with the same test-phase subsequence get the same metrics, and the
\* malicious events and alerts with step < warmup_steps influence no metric.
C23_TestPhaseOnly ==
    pc = "evaluated" =>
        /\ \A t \in Thresholds :
              /\ rows[t] = Some(eval_from_events(TestPart(model[t].events)))
              /\ rows[t] = Some(eval_from_events(WithoutTrainSignals(model[t].events)))
        /\ \A t1 \in Thresholds : \A t2 \in Thresholds :
              TestPart(model[t1].events) = TestPart(model[t2].events) => rows[t1] = rows[t2]

\* two runs with the same test phase, malicious and confirmed, of which only
\* one confirmed in the train phase
C23_Witness ==
    /\ pc = "evaluated"
    /\ \E t1 \in Thresholds : \E t2 \in Thresholds :
          LET e1 == model[t1].events
              e2 == model[t2].events
          IN  /\ TestPart(e1) = TestPart(e2)
              /\ TestConfirmed(e1) # {}
              /\ \E i \in DOMAIN e1 : e1[i].phase = "train" /\ IsAlert(e1[i])
              /\ \E i \in DOMAIN e2 : e2[i].phase = "train" /\ IsMalicious(e2[i])
              /\ ~\E i \in DOMAIN e2 : e2[i].phase = "train" /\ IsAlert(e2[i])

\* the reference transition of the twin on the commands of a step, in order
RECURSIVE RefCommands(_, _, _)
RefCommands(st, cmds, i) ==
    IF i > Len(cmds) THEN st
    ELSE LET e == cmds[i]
             push == CmdIs(e, "PUSH_TIMING_PLAN")
             tweak == CmdIs(e, "TWEAK_OFFSET")
             sev == IF push THEN Max(st.severity, e.meta.severity_inc)
                    ELSE IF tweak THEN Min(One, st.severity + e.meta.severity_inc)
                    ELSE st.severity
             cause == IF (push \/ tweak) /\ e.actor_id >= 0 THEN Some(e.actor_id)
                      ELSE st.cause_actor_id
         IN  RefCommands([severity |-> sev, cause_actor_id |-> cause], cmds, i + 1)

CommandsOf(buffer) == SelectSeq(buffer, LAMBDA e : e.event_type = "cps_command")

RefStep(tw, buffer) ==
    RefCommands([severity |-> Max(0, tw.severity - (15 * One) \div 1000),
                 cause_actor_id |-> tw.cause_actor_id], CommandsOf(buffer), 1)

\* C30: a step of the twin is the reference transition: the severity decays
\* by 0.015 (not below 0); then, for the step's cps_command events in
\* emission order, PUSH_TIMING_PLAN sets it to max(severity, severity_inc)
\* and TWEAK_OFFSET to min(1, severity + severity_inc), each setting the
\* cause to the command's actor; so the state event reports as cause the
\* actor of the step's last command (actor 1 when actors 0 and 1 both issue
\* one), or the previous step's cause when there is none.
C30_TwinReference ==
    [][\E fires \in DrawOutcomes :
          LET buffer == StepBuffer(fires)
              cmds == CommandsOf(buffer)
              ref == RefStep(twin, buffer)
          IN  /\ twin'.severity = ref.severity
              /\ twin'.cause_actor_id = ref.cause_actor_id
              /\ StateMeta(twin').severity = Round4(ref.severity)
              /\ StateMeta(twin').cause_actor_id =
                    IF cmds = <<>> THEN twin.cause_actor_id
                    ELSE Some(cmds[Len(cmds)].actor_id)
              /\ ({0, 1} \subseteq {cmds[i].actor_id : i \in DOMAIN cmds}) =>
                    StateMeta(twin').cause_actor_id = Some(1)]_vars

\* a step in which actor 0 pushes a decayed severity up to 0.85 and actor 1
\* then tweaks it to 0.88, actor 1 being reported as cause
C30_Witness ==
    /\ Len(twin.writes) = 3
    /\ twin.writes[1] < PushSeverityInc
    /\ twin.writes[1] > 0
    /\ twin.writes[2] = PushSeverityInc
    /\ twin.writes[3] = PushSeverityInc + TweakSeverityInc
    /\ twin.cause_actor_id = Some(1)
    /\ twin.degraded

\* the steps of the named service's state events of a log
StateSteps(log, service) ==
    {log[i].step : i \in {j \in DOMAIN log : IsServiceState(log[j], service)}}

\* of these, the steps at which the service is degraded
DegradedSteps(log, service) ==
    {log[i].step :
        i \in {j \in DOMAIN log : IsServiceState(log[j], service) /\ log[j].meta.degraded}}

\* the degraded steps that open a maximal run: the service's state event
\* before them, in step order, does not exist or is not degraded
RunStarts(log, service) ==
    {s \in DegradedSteps(log, service) :
        LET before == {b \in StateSteps(log, service) : b < s}
        IN  before = {} \/ SetMax(before) \notin DegradedSteps(log, service)}

\* C22: for the named service's cps_service_state events taken in step
\* order, sdp is 1.0 if any is degraded and 0.0 otherwise, and
\* avg_degraded_mode_duration is the mean length of the maximal runs of
\* consecutive degraded events, a run still open at the last event
\* counted, and 0.0 when there is none.
C22_ServiceMetrics ==
    cps_call.result # None =>
        LET r == TheValue(cps_call.result)
            degraded == DegradedSteps(cps_call.log, "traffic")
            starts == RunStarts(cps_call.log, "traffic")
        IN  /\ r.sdp = IF degraded # {} THEN Frac(1, 1) ELSE Frac(0, 1)
            /\ r.avg_dur = IF degraded = {} THEN Frac(0, 1)
                           ELSE Frac(Cardinality(degraded), Cardinality(starts))

\* a log out of step order, with an event of another service, whose traffic
\* events have a closed run and a run still open at the last event, of
\* different lengths
C22_Witness ==
    /\ cps_call.result # None
    /\ \E i \in DOMAIN cps_call.log : \E j \in DOMAIN cps_call.log :
          i < j /\ cps_call.log[i].step > cps_call.log[j].step
    /\ Cardinality(RunStarts(cps_call.log, "traffic")) = 2
    /\ Cardinality(DegradedSteps(cps_call.log, "traffic")) = 3
    /\ SetMax(StateSteps(cps_call.log, "traffic")) \in DegradedSteps(cps_call.log, "traffic")

\* the metrics of the run of (threshold, seed), computed on its own
RowOf(t, seed) ==
    eval_from_events(run_simulation(sweep.streams[seed], sweep.args.warmup_steps,
                                    sweep.args.test_steps, t))

\* the seeds of the sweep whose run has a value for the metric c
SeedsWith(t, c) ==
    {seed \in 0..(sweep.args.seeds - 1) : Cell(RowOf(t, seed), c) # None}

\* a * b = c * d for quotients a and c
SameQuotient(a, c) == a.num * c.den = c.num * a.den

\* the sum of the seeds' values, as a quotient
RECURSIVE SumOfSeeds(_, _, _)
SumOfSeeds(S, t, c) ==
    IF S = {} THEN Frac(0, 1)
    ELSE LET seed == CHOOSE x \in S : TRUE
             v == Reduce(TheValue(Cell(RowOf(t, seed), c)))
             rest == SumOfSeeds(S \ {seed}, t, c)
         IN  Reduce(Frac(v.num * rest.den + rest.num * v.den, v.den * rest.den))

\* C24: for each threshold of the summary, the value of each metric is the
\* arithmetic mean of that metric over the per-seed rows, the null values
\* left out of both the sum and the count; the metrics that are never null
\* are averaged over all the seeds.
C24_AggregationConsistency ==
    sweep.pc = "returned" =>
        \A k \in DOMAIN TheValue(sweep.file) : \A c \in MetricColumns :
            LET out == TheValue(sweep.file)[k]
                with == SeedsWith(out["threshold"], c)
                total == SumOfSeeds(with, out["threshold"], c)
            IN  /\ c \notin NullableColumns => with = 0..(sweep.args.seeds - 1)
                /\ IF with = {} THEN out[c] = None
                   ELSE /\ out[c] # None
                        /\ SameQuotient(TheValue(out[c]),
                                        Frac(total.num, total.den * Cardinality(with)))

\* a finished sweep with a threshold at which one seed has a mean_ttd that
\* is not 0 and another seed has none
C24_Witness ==
    /\ sweep.pc = "returned"
    /\ \E k \in DOMAIN TheValue(sweep.file) :
          LET t == TheValue(sweep.file)[k]["threshold"]
          IN  /\ \E seed \in 0..(sweep.args.seeds - 1) : RowOf(t, seed).mean_ttd = None
              /\ \E seed \in 0..(sweep.args.seeds - 1) :
                    /\ RowOf(t, seed).mean_ttd # None
                    /\ TheValue(RowOf(t, seed).mean_ttd).num > 0

\* the rows recorded for threshold t
RowsAt(t) == {i \in DOMAIN sweep.rows : sweep.rows[i].threshold = t}

\* C25: if every seed of a threshold yields null for mean_ttd or iw_ttd, the
\* sweep still completes (aggregation raises nothing once there are rows)
\* and the aggregate of that metric at that threshold is null.
C25_AllNullAggregate ==
    /\ sweep.pc = "raised" => sweep.rows = <<>>
    /\ sweep.pc \in {"write", "returned"} =>
          \A k \in DOMAIN TheValue(sweep.summary) : \A c \in NullableColumns :
              LET out == TheValue(sweep.summary)[k]
              IN  (\A i \in RowsAt(out["threshold"]) : sweep.rows[i][c] = None)
                      => out[c] = None

\* a finished sweep of two seeds or more in which a threshold has null for
\* mean_ttd with every seed, though not for iw_ttd, and another threshold
\* has a mean_ttd
C25_Witness ==
    /\ sweep.pc = "returned"
    /\ sweep.args.seeds >= 2
    /\ \E k \in DOMAIN TheValue(sweep.file) :
          /\ \A i \in RowsAt(TheValue(sweep.file)[k]["threshold"]) : sweep.rows[i].mean_ttd = None
          /\ \E i \in RowsAt(TheValue(sweep.file)[k]["threshold"]) : sweep.rows[i].iw_ttd # None
          /\ TheValue(sweep.file)[k]["mean_ttd"] = None
    /\ \E k \in DOMAIN TheValue(sweep.file) : TheValue(sweep.file)[k]["mean_ttd"] # None

\* the pairs (threshold, seed) of the sweep's arguments
SweepPairs ==
    {p \in SweepThresholds \X (0..MaxSeeds) :
        /\ sweep.args.threshold_min <= p[1] /\ p[1] <= sweep.args.threshold_max
        /\ p[2] < sweep.args.seeds}

\* C26: run_sweep performs exactly one simulation run and records exactly
\* one row for every pair (threshold, seed) with threshold_min <= threshold
\* <= threshold_max and 0 <= seed < num_seeds, and its output has exactly
\* one row per threshold of that range, in ascending order.
C26_OneRunPerPair ==
    /\ Len(sweep.rows) = Len(sweep.runs)
    /\ \A i \in DOMAIN sweep.runs :
          /\ sweep.runs[i] \in SweepPairs
          /\ sweep.rows[i].threshold = sweep.runs[i][1]
          /\ sweep.rows[i].seed = sweep.runs[i][2]
          /\ \A j \in DOMAIN sweep.runs : sweep.runs[j] = sweep.runs[i] => j = i
    /\ sweep.pc \in {"write", "returned"} =>
          {sweep.runs[i] : i \in DOMAIN sweep.runs} = SweepPairs
    /\ sweep.pc = "returned" =>
          /\ Len(TheValue(sweep.file)) = sweep.args.threshold_max - sweep.args.threshold_min + 1
          /\ \A k \in DOMAIN TheValue(sweep.file) :
                TheValue(sweep.file)[k]["threshold"] = sweep.args.threshold_min + k - 1

\* a finished sweep over three thresholds and two seeds or more
C26_Witness ==
    /\ sweep.pc = "returned"
    /\ sweep.args.threshold_max - sweep.args.threshold_min = 2
    /\ sweep.args.seeds >= 2
    /\ Len(TheValue(sweep.file)) = 3
    /\ Len(sweep.runs) = 3 * sweep.args.seeds

\* the sweep has ended: it has returned or an exception has left run_sweep
SweepEnded == sweep.pc \in {"returned", "raised"}

\* C27: when threshold_max < threshold_min (and the model loads), run_sweep
\* fails with an InvalidRange error: no simulation is run, no output table
\* is written and no other error kind is raised.
C27_InvalidRange ==
    (/\ SweepEnded
     /\ sweep.module # None
     /\ sweep.args.seeds > 0
     /\ sweep.args.threshold_max < sweep.args.threshold_min)
        => /\ sweep.error # None
           /\ TheValue(sweep.error).exception = "InvalidRange"
           /\ sweep.runs = <<>>
           /\ sweep.file = None

\* C28: when num_seeds <= 0 (the model loads and the range of thresholds is
\* not empty), run_sweep ends with an InvalidConfig error and writes no
\* output table.
C28_InvalidConfig ==
    (/\ SweepEnded
     /\ sweep.module # None
     /\ sweep.args.seeds <= 0
     /\ sweep.args.threshold_min <= sweep.args.threshold_max)
        => /\ sweep.error # None
           /\ TheValue(sweep.error).exception = "InvalidConfig"
           /\ sweep.file = None

\* C29: when the simulation implementation reference is missing or cannot
\* be loaded, the sweep ends with a LoadError before any (threshold, seed)
\* run is executed and before anything is written to the output path.
C29_LoadError ==
    (SweepEnded /\ sweep.args.model \in {"no_loader", "missing_file", "bad_source"})
        => /\ sweep.error # None
           /\ TheValue(sweep.error).exception = "LoadError"
           /\ sweep.runs = <<>>
           /\ sweep.file = None

\* C31: in every cps_service_state event, degraded is true if and only if
\* the twin's severity after that step's decay and commands is >= 0.25; in
\* particular every step in which actor 0 issues PUSH_TIMING_PLAN reports
\* degraded = true with severity >= 0.85.
C31_DegradedIffSevere ==
    [][\A fires \in DrawOutcomes :
          LET buffer == StepBuffer(fires)
              ref == RefStep(twin, buffer)
              reported == StateEvent(twin', 0).meta
              pushed == \E i \in DOMAIN buffer :
                            buffer[i].actor_id = 0 /\ CmdIs(buffer[i], "PUSH_TIMING_PLAN")
          IN  twin' = TwinUpdate(twin, buffer) =>
                /\ reported.degraded <=> (ref.severity >= (25 * One) \div 100)
                /\ pushed => /\ reported.degraded
                             /\ reported.severity >= (85 * One) \div 100]_vars

\* a step in which the twin is below 0.25 after the decay and actor 0's
\* push alone takes it to 0.85: the state reported is degraded
C31_Witness ==
    /\ Len(twin.writes) = 2
    /\ twin.writes[1] > 0
    /\ twin.writes[1] < DegradeThreshold
    /\ twin.writes[2] = PushSeverityInc
    /\ StateEvent(twin, 0).meta.degraded
    /\ StateEvent(twin, 0).meta.cause_actor_id = Some(0)

\* the place of an event within its step: the stage of the step that emits
\* it, then the actor, then the rule (an actor's command is its second rule)
PlaceInStep(e) ==
    LET stage == IF e.event_type = CPS_STATE_TYPE THEN 3
                 ELSE IF e.event_type = "alert_confirmed" THEN 4
                 ELSE IF e.actor_id < 0 THEN 5
                 ELSE IF e.label = "malicious" THEN 2
                 ELSE 1
        rule == IF e.event_type = "cps_command" THEN 1 ELSE 0
    IN  <<stage, IF e.actor_id < 0 THEN 0 ELSE e.actor_id, rule>>

\* lexicographic order of places
PlaceBefore(p, q) ==
    \/ p[1] < q[1]
    \/ p[1] = q[1] /\ p[2] < q[2]
    \/ p[1] = q[1] /\ p[2] = q[2] /\ p[3] < q[3]

\* the positions of the malicious events of step s
MaliciousAt(evs, s) == {i \in Indices(evs, s) : IsMalicious(evs[i])}

\* the positions of the actors' twin commands of step s
CommandsAt(evs, s) ==
    {i \in Indices(evs, s) : evs[i].event_type = "cps_command" /\ evs[i].actor_id >= 0}

\* C32: within every step the events are appended in this order: benign
\* logins (actor ids ascending 5..11), malicious events in actor order 0..4
\* (rule A before rule B), the single cps_service_state event, the
\* alert_confirmed events in ascending actor id, the ROLLBACK_PLAN event if
\* any; so the twin sees all of the step's actor commands (its state names
\* the last of them as cause) and the monitor sees all of the step's
\* malicious events (it alerts on every actor of the step when their events
\* reach the threshold).
C32_OrderWithinStep ==
    \A t \in Thresholds :
        LET evs == model[t].events
        IN  /\ \A i \in DOMAIN evs : \A j \in DOMAIN evs :
                  (i < j /\ evs[i].step = evs[j].step) =>
                      PlaceBefore(PlaceInStep(evs[i]), PlaceInStep(evs[j]))
            /\ \A i \in DOMAIN evs :
                  /\ PlaceInStep(evs[i])[1] = 1 => evs[i].actor_id \in BenignFirst..BenignLast
                  /\ PlaceInStep(evs[i])[1] = 2 => evs[i].actor_id \in 0..(Len(scenarios) - 1)
            /\ \A s \in StepsDone(model[t]) :
                  /\ CommandsAt(evs, s) # {} =>
                        \A k \in StatesAt(evs, s) :
                            evs[k].meta.cause_actor_id =
                                Some(evs[SetMax(CommandsAt(evs, s))].actor_id)
                  /\ AlertActorsAt(evs, s) =
                        IF Cardinality(MaliciousAt(evs, s)) >= t
                        THEN {evs[i].actor_id : i \in MaliciousAt(evs, s)}
                        ELSE {}

\* a run whose second step has every kind of event: the seven logins, the
\* seven malicious events, the state, five alerts and the rollback
C32_Witness ==
    \E t \in Thresholds :
        LET evs == model[t].events
        IN  /\ Indices(evs, 0) # {}
            /\ Cardinality(Indices(evs, 1)) = DrawsPerStep + 1 + Len(scenarios) + 1
            /\ Cardinality(AlertsAt(evs, 1)) = Len(scenarios)
            /\ RollbacksAt(evs, 1) # {}

\* C33: the event log is append-only during a run: the log at the end of a
\* step is a prefix of the log at the end of the next step, no step
\* removes, reorders or rewrites an event of the log (its phase included),
\* and clearing the step-local buffer at the start of a step does not
\* change the log.
C33_AppendOnly ==
    [][\A t \in Thresholds :
          LET old == model[t].events
              new == model'[t].events
          IN  /\ Len(old) <= Len(new)
              /\ \A i \in DOMAIN old : new[i] = old[i]
              /\ ClearBuffer(model[t]).events = old
              /\ ClearBuffer(model[t]).action_events = <<>>]_vars

\* a run with one warmup step and one test step: the log keeps the train
\* events of step 0, alerts and rollback included, before the test events
\* of step 1, and the buffer holds the events of step 1 only
C33_Witness ==
    \E t \in Thresholds :
        LET evs == model[t].events
        IN  /\ model[t].warmup_steps = 1
            /\ model[t].step_idx = 2
            /\ RollbacksAt(evs, 0) # {}
            /\ \A i \in Indices(evs, 0) : evs[i].phase = "train"
            /\ \A i \in Indices(evs, 1) : evs[i].phase = "test"
            /\ Len(model[t].action_events) = Cardinality(Indices(evs, 1))
            /\ Len(model[t].action_events) < Len(evs)

\* the scenario of each malicious actor, as the claim lists them
ScenarioTable ==
    [a \in 0..4 |->
        CASE a = 0 -> "acct_takeover"
          [] a = 1 -> "stealth"
          [] a = 2 -> "staging_exfil"
          [] a = 3 -> "exfil"
          [] a = 4 -> "email_only"]

\* C34: an event has a scenario if and only if it is a malicious-labelled
\* event of actors 0..4, and the scenario is a fixed function of the actor
\* id (0 acct_takeover, 1 stealth, 2 staging_exfil, 3 exfil, 4 email_only)
\* for the whole run; benign, twin, alert_confirmed and rollback events
\* carry none; so the evaluator's scenario_by_actor is that function on the
\* actors it has seen act.
C34_ScenarioByActor ==
    \A t \in Thresholds :
        LET evs == model[t].events
            by_actor == ScenarioByActor(filter_to_test(evs), Len(filter_to_test(evs)))
        IN  /\ \A i \in DOMAIN evs :
                  /\ (evs[i].scenario # None) <=>
                        (evs[i].label = "malicious" /\ evs[i].actor_id \in DOMAIN ScenarioTable)
                  /\ evs[i].scenario # None =>
                        evs[i].scenario = Some(ScenarioTable[evs[i].actor_id])
                  /\ (\/ evs[i].label = "benign"
                      \/ evs[i].actor_id < 0
                      \/ evs[i].event_type \in {CPS_STATE_TYPE, "alert_confirmed"})
                        => evs[i].scenario = None
            /\ DOMAIN by_actor = TestMalicious(evs)
            /\ \A a \in DOMAIN by_actor : by_actor[a] = ScenarioTable[a]

\* an evaluated run in whose test phase the five scenarios occur, next to
\* logins, alerts on the five actors and a rollback, all without scenario
C34_Witness ==
    /\ pc = "evaluated"
    /\ \E t \in Thresholds :
          LET evs == model[t].events
          IN  /\ TestMalicious(evs) = DOMAIN ScenarioTable
              /\ TestConfirmed(evs) = DOMAIN ScenarioTable
              /\ \E i \in TestIdx(evs) : evs[i].actor_id >= BenignFirst
              /\ \E i \in TestIdx(evs) : CmdIs(evs[i], "ROLLBACK_PLAN")

\* C35: in the log of every run, every actor with a test-phase
\* alert_confirmed event also has a test-phase malicious event (confirmed
\* is a subset of malicious, no false positive, no actor of the benign pool
\* 5..11 is ever confirmed), so actor_precision is exactly 1 whenever an
\* actor is confirmed in the test phase and 0 otherwise.
C35_NoFalsePositive ==
    \A t \in Thresholds :
        LET evs == model[t].events
        IN  /\ TestConfirmed(evs) \subseteq TestMalicious(evs)
            /\ \A i \in DOMAIN evs :
                  IsAlert(evs[i]) => evs[i].actor_id \notin BenignFirst..BenignLast
            /\ rows[t] # None =>
                  LET p == TheValue(rows[t]).actor_precision
                  IN  /\ p.den > 0
                      /\ IF TestConfirmed(evs) # {} THEN p.num = p.den ELSE p.num = 0

\* an evaluated seed in which logins of the benign pool occur in the test
\* phase, one threshold confirms actors (precision 1) and another, with the
\* same malicious events, confirms none (precision 0)
C35_Witness ==
    /\ pc = "evaluated"
    /\ \E t \in Thresholds : \E u \in Thresholds :
          /\ TestConfirmed(model[t].events) # {}
          /\ TheValue(rows[t]).actor_precision = Frac(1, 1)
          /\ \E i \in TestIdx(model[t].events) :
                model[t].events[i].actor_id \in BenignFirst..BenignLast
          /\ TestMalicious(model[u].events) # {}
          /\ TestConfirmed(model[u].events) = {}
          /\ TheValue(rows[u]).actor_precision = Frac(0, 1)

\* C36: time-to-detect is never negative: in the log of every run, for
\* every actor with both a test-phase malicious event and a test-phase
\* alert_confirmed event, the first confirmed step is not before the first
\* malicious step; hence mean_ttd, when not null, is >= 0 and iw_ttd, when
\* not null, is >= 0.
C36_TtdNotNegative ==
    \A t \in Thresholds :
        LET evs == model[t].events
        IN  /\ \A a \in TestConfirmed(evs) \cap TestMalicious(evs) :
                  FirstConfirmedStep(evs, a) >= FirstMaliciousStep(evs, a)
            /\ rows[t] # None =>
                  LET r == TheValue(rows[t])
                  IN  /\ r.mean_ttd # None =>
                            TheValue(r.mean_ttd).num >= 0 /\ TheValue(r.mean_ttd).den > 0
                      /\ r.iw_ttd # None =>
                            TheValue(r.iw_ttd).num >= 0 /\ TheValue(r.iw_ttd).den > 0

\* an evaluated run with an actor confirmed one step after its first
\* malicious event and another confirmed at once, mean_ttd and iw_ttd both
\* positive
C36_Witness ==
    /\ pc = "evaluated"
    /\ \E t \in Thresholds :
          LET evs == model[t].events
              r == TheValue(rows[t])
          IN  /\ \E a \in TestConfirmed(evs) :
                    FirstConfirmedStep(evs, a) = FirstMaliciousStep(evs, a) + 1
              /\ \E a \in TestConfirmed(evs) :
                    FirstConfirmedStep(evs, a) = FirstMaliciousStep(evs, a)
              /\ r.mean_ttd # None /\ TheValue(r.mean_ttd).num > 0
              /\ r.iw_ttd # None /\ TheValue(r.iw_ttd).num > 0

\* the events that come from the actors: benign logins and malicious events
ActorEvents(evs) ==
    SelectSeq(evs, LAMBDA e : e.actor_id >= 0 /\ e.event_type # "alert_confirmed")

\* the log without its alert_confirmed and ROLLBACK_PLAN events
WithoutResponses(evs) ==
    SelectSeq(evs, LAMBDA e : e.event_type # "alert_confirmed" /\ ~CmdIs(e, "ROLLBACK_PLAN"))

\* C37: the monitor and the rollback consume no random draws and every
\* step consumes the same number of draws (7 background + 7 actor-rule
\* draws) whatever fires, so for the same seed and step counts the
\* subsequence of actor-originated events is identical for every
\* confirmation threshold; only alert_confirmed and ROLLBACK_PLAN events
\* can differ between thresholds.
C37_ThresholdIndependence ==
    \A t \in Thresholds : \A u \in Thresholds :
        /\ model[t].rng_calls = (7 + 7) * model[t].step_idx
        /\ model[t].rng_calls = model[u].rng_calls
        /\ ActorEvents(model[t].events) = ActorEvents(model[u].events)
        /\ WithoutResponses(model[t].events) = WithoutResponses(model[u].events)

\* two steps of a seed after which the runs of two thresholds have the same
\* logins and malicious events, one with alerts and a rollback in both
\* steps, the other with none
C37_Witness ==
    \E t \in Thresholds : \E u \in Thresholds :
        /\ model[t].step_idx = 2
        /\ AlertsAt(model[t].events, 0) # {} /\ AlertsAt(model[t].events, 1) # {}
        /\ RollbacksAt(model[t].events, 1) # {}
        /\ ~HasAlert(model[u].events)
        /\ Len(ActorEvents(model[u].events)) = 2
        /\ Len(model[t].events) > Len(model[u].events)

=============================================================================
